---- MODULE Spec2Model ----
(***************************************************************************)
(* Model of the care-service messaging core: the inbound baby-creation     *)
(* consumer (internal/adapters/repository/baby_consumer.go), the creation  *)
(* service it calls (internal/core/services/baby_service.go) and the alert *)
(* publisher (internal/adapters/middleware/auth_middleware.go, 454-707).   *)
(***************************************************************************)
EXTENDS Integers, Sequences, FiniteSets, TLC

(* ------------------------------- bounds -------------------------------- *)
MaxMsgs == 2        \* messages in the inbound queue in one run
MaxDrops == 1       \* times the broker severs the connections in one run
MaxFail == 1        \* times the baby repository fails in one run
MaxDeliv == 2       \* deliveries of one message the broker makes in one run
MaxSlots == 2       \* StartConsuming invocations that can coexist
MaxExplicit == 2    \* StartConsuming calls issued from outside the consumer
MaxCallers == 2     \* PublishAlert calls that can be in progress at once
MaxReqs == 1        \* CreateMeasurementWithDetails calls in one run
MaxTime == 2        \* seconds the clock of the authentication middleware runs

(* --------------------------- program constants -------------------------- *)
maxRetries == 3     \* BabyConsumer.maxRetries / RabbitMQPublisher.maxRetries
prefetchCount == 1  \* channel.Qos prefetch count
cbMaxRequests == 5  \* gobreaker.Settings.MaxRequests
cbTripAfter == 5    \* ReadyToTrip: counts.ConsecutiveFailures > 5
TemperatureNormalMin == 365    \* domain.TemperatureNormalMin, 36.5
TemperatureNormalMax == 375    \* domain.TemperatureNormalMax, 37.5
TemperatureYellowMin == 360    \* domain.TemperatureYellowMin, 36.0
TemperatureYellowMax == 380    \* domain.TemperatureYellowMax, 38.0
temperatureMin == 300          \* validateMeasurement: 30.0
temperatureMax == 420          \* validateMeasurement: 42.0
weightMax == 100000            \* validateMeasurement: 10000 grams

Slots == 1..MaxSlots
MsgIds == 1..MaxMsgs
NilUUID == 0                   \* uuid.Nil
NoBaby == [LastName |-> "", RoomNumber |-> "", ParentUserID |-> NilUUID]

(* ------------------------- message bodies (JSON) ------------------------ *)
\* A body is a JSON object (a function from keys to strings) or a byte
\* string that is not JSON (the record with the single key "raw").
UserIDs == {"", "zz", "a1", "A1"}
LastNames == {"", "Smith"}
RoomNumbers == {"", "101"}
GarbageBody == [raw |-> "not-json"]
ReadmeBody == [last_name |-> "Smith", room_number |-> "101", parent_user_id |-> "a1"]
RequestBodies == [user_id : UserIDs, last_name : LastNames, room_number : RoomNumbers]
Bodies == RequestBodies \cup {GarbageBody, ReadmeBody}
\* The body the lifecycle specification puts in the queue: a well-formed request.
ValidBody == [user_id |-> "a1", last_name |-> "Smith", room_number |-> "101"]

\* json.Unmarshal(msg.Body, &req): fails on non-JSON; a key that is absent
\* from the object leaves the struct field at its zero value "".
UnmarshalOk(b) == "raw" \notin DOMAIN b
JsonField(b, k) == IF k \in DOMAIN b THEN b[k] ELSE ""
Unmarshal(b) ==
  [UserID |-> JsonField(b, "user_id"),
   LastName |-> JsonField(b, "last_name"),
   RoomNumber |-> JsonField(b, "room_number")]

\* uuid.Parse: hexadecimal digits are accepted in either case, so two
\* different strings can denote the same identifier.
UuidParseOk(s) == s \in {"a1", "A1"}
UuidParse(s) == IF s \in {"a1", "A1"} THEN 1 ELSE NilUUID

\* Validate without the room_number check of lines 271-276.
Validate_NoRoomCheck(b) ==
  IF ~UnmarshalOk(b) THEN "unmarshal"
  ELSE IF Unmarshal(b).UserID = "" THEN "user_id"
  ELSE IF Unmarshal(b).LastName = "" THEN "last_name"
  ELSE IF ~UuidParseOk(Unmarshal(b).UserID) THEN "uuid"
  ELSE "ok"

\* The validation sequence of processMessage, lines 247-285: the first
\* failing check decides; "ok" when every check passes.
Validate(b) ==
  IF ~UnmarshalOk(b) THEN "unmarshal"
  ELSE IF Unmarshal(b).UserID = "" THEN "user_id"
  ELSE IF Unmarshal(b).LastName = "" THEN "last_name"
  ELSE IF Unmarshal(b).RoomNumber = "" THEN "room_number"
  ELSE IF ~UuidParseOk(Unmarshal(b).UserID) THEN "uuid"
  ELSE "ok"

\* CreateArgs with lastName and roomNumber passed in each other's place.
CreateArgs_Swapped(b) ==
  [lastName |-> Unmarshal(b).RoomNumber,
   roomNumber |-> Unmarshal(b).LastName,
   parentUserID |-> UuidParse(Unmarshal(b).UserID),
   createdByUserID |-> NilUUID,
   isAdmin |-> TRUE]

\* The arguments processMessage passes to CreateBaby, line 290-291.
CreateArgs(b) ==
  [lastName |-> Unmarshal(b).LastName,
   roomNumber |-> Unmarshal(b).RoomNumber,
   parentUserID |-> UuidParse(Unmarshal(b).UserID),
   createdByUserID |-> NilUUID,
   isAdmin |-> TRUE]

NoArgs == [lastName |-> "", roomNumber |-> "", parentUserID |-> NilUUID,
           createdByUserID |-> NilUUID, isAdmin |-> FALSE]

\* BabyService.CreateBaby, lines 28-56: RBAC, input validation, then the
\* repository insert, whose outcome is repoOk.
CreateBabyResult(a, repoOk) ==
  IF ~a.isAdmin THEN "forbidden"
  ELSE IF a.lastName = "" THEN "invalid"
  ELSE IF a.roomNumber = "" THEN "invalid"
  ELSE IF repoOk THEN "ok"
  ELSE "repo_error"

\* DispositionFor that nacks without requeue when the service failed.
DispositionFor_DropOnError(svc) == IF svc = "ok" THEN "ack" ELSE "nack_drop"

\* DispositionFor that acknowledges whatever the service answered.
DispositionFor_AlwaysAck(svc) == "ack"

\* The disposition processMessage issues once the service has answered,
\* lines 292-310.
DispositionFor(svc) == IF svc = "ok" THEN "ack" ELSE "nack_requeue"


(* ================================ state ================================= *)
\* Connection and channel objects.  connect replaces c.conn and c.channel
\* only after handleReconnection closed the objects they held (lines
\* 120-129), so an object that c.conn / c.channel no longer refers to is
\* closed.  A handle is therefore "nil", "live" (the object the field
\* refers to now; its status is the field's) or "stale" (an object the
\* field has been moved away from, closed).
VARIABLES
  \* the broker and the inbound queue
  brokerUp,        \* the broker is reachable
  queue,           \* ready messages of the inbound queue (message ids)
  body,            \* body[m]: body of message m
  unacked,         \* unacked[s]: deliveries to the consumer registered by s, not yet settled
  inbox,           \* inbox[s]: deliveries waiting in the msgs channel of s
  registered,      \* registered[s]: the broker consumer registered by s exists (its channel is open)
  drops,           \* connection losses so far
  fails,           \* repository failures so far
  \* BabyConsumer fields
  c_conn,          \* c.conn: "nil", "open" or "closed"
  c_channel,       \* c.channel: "nil", "open" or "closed"
  isConsuming,     \* c.isConsuming
  consumingCtx,    \* c.consumingCtx: "nil" or "ctx"
  reconnectCh,     \* items buffered in c.reconnectCh (capacity 1)
  stopReconnect,   \* c.stopReconnect has been closed
  ctxCancelled,    \* the run signal handed to StartConsuming is cancelled
  \* StartConsuming invocations and the loops they spawn
  pc, l_ch, l_conn, cur,
  lastRet,         \* the latest return of StartConsuming: the path taken and the value
  explicitCalls,   \* StartConsuming calls issued from outside so far
  \* handleReconnection goroutine
  hpc, hi,
  \* Close call
  clpc,
  \* baby repository and per-message history
  babies, hist

\* RabbitMQPublisher, its circuit breaker and the PublishAlert calls
VARIABLES
  p_up,            \* the broker is reachable for the publisher
  p_conn,          \* p.conn: "nil", "open" or "closed"
  p_channel,       \* p.channel: "nil", "open" or "closed"
  p_reconnectCh,   \* items buffered in p.reconnectCh (capacity 1)
  p_hpc, p_hi,     \* the publisher's handleReconnection goroutine
  cbState,         \* p.cb: "closed", "open" or "half-open"
  cbCounts,        \* p.cb counts of the current generation
  p_pc, p_i, p_lastErr, p_err,   \* PublishAlert calls in progress
  p_sleeps,        \* p_sleeps[c]: time.Sleep(p.retryDelay) calls within the call of caller c
  p_oks,           \* p_oks[c]: PublishWithContext successes within the call of caller c
  p_stale,         \* p_stale[c]: the breaker moved to a new generation during the call
  p_lastRet,       \* the latest return of PublishAlert: the error and the successes of that call
  p_input,         \* the measurement PublishAlert is called with in this run
  p_body,          \* p_body[c]: the event marshalled for the call of caller c
  p_out,           \* p_out[c]: the message the call of caller c last handed to the broker
  p_run            \* failed PublishAlert calls in a row that p.cb let through since it was last closed or a call succeeded

pubConnVars == <<p_up, p_conn, p_channel, p_reconnectCh, p_hpc, p_hi>>
cbVars == <<cbState, cbCounts>>
callVars == <<p_pc, p_i, p_lastErr, p_err, p_sleeps, p_oks, p_stale, p_lastRet, p_run, p_input, p_body, p_out>>
pubVars == <<pubConnVars, cbVars, callVars>>

\* MeasurementService.CreateMeasurementWithDetails calls and their alert goroutines
VARIABLES
  s_pc,            \* s_pc[r]: "idle" or "returned"
  s_req, s_admin,  \* the request and the caller's role
  s_ret,           \* what the call stored, whether it started the goroutine, what it returned
  s_ctxDone,       \* the context of request r is cancelled
  g_pc,            \* the alert goroutine of request r: "none", "spawned", "calling", "done"
  g_ctx, g_arg,    \* the context and the measurement it handed to PublishAlert
  g_err,           \* what PublishAlert returned to it
  invoked          \* invoked[r]: PublishAlert calls made for request r

svcVars == <<s_pc, s_req, s_admin, s_ret, s_ctxDone, g_pc, g_ctx, g_arg, g_err, invoked>>

\* The main goroutine and what the model notes about calls in progress
VARIABLES
  m_pc,            \* main: "serving", "cancelled", "shutdown" or "exited"
  priorCtx,        \* priorCtx[s]: c.consumingCtx as it was when the StartConsuming call of slot s began
  byHandler        \* byHandler[s]: the StartConsuming call of slot s was started by handleReconnection

mainVars == <<m_pc>>
noteVars == <<priorCtx, byHandler>>

\* AuthMiddleware, and the services behind the read and delete endpoints
VARIABLES
  a_now,           \* time.Now().Unix()
  a_cache,         \* m.cache: the entry stored under each key, or NoEntry
  a_ret,           \* the latest return of GetClaimsFromCacheOrParse, with the token presented
  db_babies,       \* the babies table: the parent of each baby, or NoUser
  db_meas,         \* the measurements table: the row of each measurement, or NoRow
  q_ret            \* the latest service call: its arguments, the repository calls it made, what it returned

authVars == <<a_now, a_cache, a_ret>>
readVars == <<db_babies, db_meas, q_ret>>
apiVars == <<authVars, readVars>>
otherVars == <<mainVars, noteVars, apiVars>>

brokerVars == <<brokerUp, queue, body, unacked, inbox, registered, drops, fails>>
fieldVars == <<c_conn, c_channel, isConsuming, consumingCtx, reconnectCh, stopReconnect, ctxCancelled>>
slotVars == <<pc, l_ch, l_conn, cur, lastRet, explicitCalls>>
consumerVars == <<brokerVars, fieldVars, slotVars, hpc, hi, clpc, babies, hist>>

NoCur == [msg |-> 0, args |-> NoArgs, svc |-> "none", svcN |-> 0, disp |-> "none", dispN |-> 0]
NoHist == [deliv |-> 0, created |-> 0]
NoRet == [path |-> "none", val |-> "none"]

LoopPCs == {"select", "pm_validate", "pm_create", "pm_disp", "pm_ret", "send", "defer"}
ProcessingPCs == {"pm_validate", "pm_create", "pm_disp", "pm_ret"}
StartPCs == {"sc_guard", "sc_read", "sc_register", "sc_reset"}

\* State after NewBabyConsumer returned (lines 45-68): connected, queue
\* declared, the reconnection handler waiting; the inbound queue holds the
\* requests the upstream service published, with bodies drawn from B.
ConsumerInit(B, f) ==
  /\ brokerUp = TRUE
  /\ body \in [MsgIds -> B]
  /\ queue = [i \in MsgIds |-> i]
  /\ unacked = [s \in Slots |-> {}]
  /\ inbox = [s \in Slots |-> <<>>]
  /\ registered = [s \in Slots |-> FALSE]
  /\ drops = 0
  /\ fails = f
  /\ c_conn = "open"
  /\ c_channel = "open"
  /\ isConsuming = FALSE
  /\ consumingCtx = "nil"
  /\ reconnectCh = 0
  /\ stopReconnect = FALSE
  /\ ctxCancelled = FALSE
  /\ pc = [s \in Slots |-> "idle"]
  /\ lastRet = NoRet
  /\ l_ch = [s \in Slots |-> "nil"]
  /\ l_conn = [s \in Slots |-> "nil"]
  /\ cur = [s \in Slots |-> NoCur]
  /\ explicitCalls = 0
  /\ hpc = "wait"
  /\ hi = 0
  /\ clpc = "idle"
  /\ babies = <<>>
  /\ hist = [m \in MsgIds |-> NoHist]

(* ------------------------------ the broker ------------------------------ *)
RECURSIVE SetToSeq(_)
SetToSeq(S) ==
  IF S = {} THEN <<>>
  ELSE LET x == CHOOSE y \in S : \A z \in S : y <= z
       IN <<x>> \o SetToSeq(S \ {x})

RECURSIVE Requeued(_)
\* The unsettled deliveries of the registered consumers, in slot order.
Requeued(i) ==
  IF i > MaxSlots THEN <<>>
  ELSE (IF registered[i] THEN SetToSeq(unacked[i]) ELSE <<>>) \o Requeued(i + 1)

\* The open channel (if any) closes: the broker drops its consumers and
\* returns their unsettled deliveries to the queue, and the library closes
\* their msgs channels.
ChannelCloses ==
  /\ queue' = Requeued(1) \o queue
  /\ unacked' = [s \in Slots |-> IF registered[s] THEN {} ELSE unacked[s]]
  /\ inbox' = [s \in Slots |-> IF registered[s] THEN <<>> ELSE inbox[s]]
  /\ registered' = [s \in Slots |-> FALSE]
  /\ c_channel' = IF c_channel = "open" THEN "closed" ELSE c_channel

\* conn.Close() / loss of the connection: the connection and its channel close.
ConnCloses ==
  /\ ChannelCloses
  /\ c_conn' = IF c_conn = "open" THEN "closed" ELSE c_conn

\* The broker pushes the head of the queue to a registered consumer that
\* holds fewer than prefetchCount unsettled deliveries (channel.Qos, 181-185).
Deliver(s) ==
  /\ brokerUp
  /\ registered[s]
  /\ Cardinality(unacked[s]) < prefetchCount
  /\ queue # <<>>
  /\ hist[Head(queue)].deliv < MaxDeliv
  /\ unacked' = [unacked EXCEPT ![s] = @ \cup {Head(queue)}]
  /\ inbox' = [inbox EXCEPT ![s] = Append(@, Head(queue))]
  /\ queue' = Tail(queue)
  /\ hist' = [hist EXCEPT ![Head(queue)].deliv = @ + 1]
  /\ UNCHANGED <<brokerUp, body, pubVars, svcVars, otherVars, registered, drops, fails>>
  /\ UNCHANGED <<fieldVars, slotVars, hpc, hi, clpc, babies>>

\* The broker becomes unreachable: the open connection is severed.
BrokerDown ==
  /\ brokerUp
  /\ drops < MaxDrops
  /\ brokerUp' = FALSE
  /\ drops' = drops + 1
  /\ ConnCloses
  /\ UNCHANGED <<body, pubVars, svcVars, otherVars, fails>>
  /\ UNCHANGED <<isConsuming, consumingCtx, reconnectCh, stopReconnect, ctxCancelled>>
  /\ UNCHANGED <<slotVars, hpc, hi, clpc, babies, hist>>

BrokerBack ==
  /\ ~brokerUp
  /\ brokerUp' = TRUE
  /\ UNCHANGED <<queue, body, pubVars, svcVars, otherVars, unacked, inbox, registered, drops, fails>>
  /\ UNCHANGED <<fieldVars, slotVars, hpc, hi, clpc, babies, hist>>

\* main cancels the consumer context (cmd/api/main.go, consumerCancel()).
Cancel ==
  /\ ~ctxCancelled
  /\ ctxCancelled' = TRUE
  /\ UNCHANGED <<c_conn, c_channel, isConsuming, consumingCtx, reconnectCh, stopReconnect>>
  /\ UNCHANGED <<brokerVars, pubVars, svcVars, otherVars, slotVars, hpc, hi, clpc, babies, hist>>

(* --------------------------- StartConsuming ----------------------------- *)
\* A slot hosts one StartConsuming invocation and the loop it starts; it is
\* free again once the invocation is over and its broker consumer is gone.
FreeSlots == {s \in Slots : pc[s] = "idle" /\ ~registered[s]}
NextSlot == CHOOSE s \in FreeSlots : \A t \in FreeSlots : s <= t

\* StartConsuming called from outside the consumer (main.go: go func(){...}).
StartCall ==
  /\ explicitCalls < MaxExplicit
  /\ FreeSlots # {}
  /\ pc' = [pc EXCEPT ![NextSlot] = "sc_guard"]
  /\ explicitCalls' = explicitCalls + 1
  /\ UNCHANGED <<l_ch, l_conn, cur, lastRet>>
  /\ UNCHANGED <<brokerVars, pubVars, svcVars, otherVars, fieldVars, hpc, hi, clpc, babies, hist>>

\* Lines 158-166: the single-instance guard, under consumingMutex.
GuardStep(s) ==
  /\ pc[s] = "sc_guard"
  /\ IF isConsuming
     THEN /\ pc' = [pc EXCEPT ![s] = "idle"]
          /\ lastRet' = [path |-> "skip", val |-> "nil"]
          /\ UNCHANGED <<isConsuming, consumingCtx>>
     ELSE /\ isConsuming' = TRUE
          /\ consumingCtx' = "ctx"
          /\ pc' = [pc EXCEPT ![s] = "sc_read"]
          /\ UNCHANGED lastRet
  /\ UNCHANGED <<c_conn, c_channel, reconnectCh, stopReconnect, ctxCancelled>>
  /\ UNCHANGED <<l_ch, l_conn, cur, explicitCalls>>
  /\ UNCHANGED <<brokerVars, pubVars, svcVars, mainVars, apiVars, hpc, hi, clpc, babies, hist>>

\* SC_Guard that does not look at isConsuming.
SC_Guard_Unguarded(s) ==
  /\ pc[s] = "sc_guard"
  /\ isConsuming' = TRUE
  /\ consumingCtx' = "ctx"
  /\ pc' = [pc EXCEPT ![s] = "sc_read"]
  /\ UNCHANGED lastRet
  /\ UNCHANGED <<c_conn, c_channel, reconnectCh, stopReconnect, ctxCancelled>>
  /\ UNCHANGED <<l_ch, l_conn, cur, explicitCalls>>
  /\ UNCHANGED <<brokerVars, pubVars, svcVars, otherVars, hpc, hi, clpc, babies, hist>>

SC_Guard(s) ==
  /\ GuardStep(s)
  /\ UNCHANGED noteVars

\* The same step, with the value c.consumingCtx had on entry noted.
SC_GuardNoted(s) ==
  /\ GuardStep(s)
  /\ priorCtx' = [priorCtx EXCEPT ![s] = consumingCtx]
  /\ UNCHANGED byHandler

\* Lines 168-171: the handles are read under connMutex.RLock.
SC_Read(s) ==
  /\ pc[s] = "sc_read"
  /\ l_ch' = [l_ch EXCEPT ![s] = IF c_channel = "nil" THEN "nil" ELSE "live"]
  /\ l_conn' = [l_conn EXCEPT ![s] = IF c_conn = "nil" THEN "nil" ELSE "live"]
  /\ pc' = [pc EXCEPT ![s] = "sc_register"]
  /\ UNCHANGED <<cur, lastRet, explicitCalls>>
  /\ UNCHANGED <<brokerVars, pubVars, svcVars, otherVars, fieldVars, hpc, hi, clpc, babies, hist>>

\* Line 173: channel == nil || channel.IsClosed() || conn == nil || conn.IsClosed().
HandlesDead(ch, conn) ==
  \/ ch # "live" \/ c_channel # "open"
  \/ conn # "live" \/ c_conn # "open"

\* Lines 173-240: the handles are checked, channel.Qos(1, 0, false) is set
\* and channel.Consume registers a broker consumer with a fresh tag; each
\* of the three fails on a dead handle and leads to the same error return.
\* On success the loop goroutine is started and nil is returned.
SC_Register(s) ==
  /\ pc[s] = "sc_register"
  /\ IF HandlesDead(l_ch[s], l_conn[s])
     THEN /\ pc' = [pc EXCEPT ![s] = "sc_reset"]
          /\ UNCHANGED <<registered, lastRet>>
     ELSE /\ registered' = [registered EXCEPT ![s] = TRUE]
          /\ pc' = [pc EXCEPT ![s] = "select"]
          /\ lastRet' = [path |-> "loop", val |-> "nil"]
  /\ l_ch' = [l_ch EXCEPT ![s] = "nil"]
  /\ l_conn' = [l_conn EXCEPT ![s] = "nil"]
  /\ UNCHANGED <<cur, explicitCalls>>
  /\ UNCHANGED <<brokerUp, queue, body, pubVars, svcVars, otherVars, unacked, inbox, drops, fails>>
  /\ UNCHANGED <<fieldVars, hpc, hi, clpc, babies, hist>>

\* Lines 174-177, 187-190, 205-208: the error return resets isConsuming.
SC_Reset(s) ==
  /\ pc[s] = "sc_reset"
  /\ isConsuming' = FALSE
  /\ pc' = [pc EXCEPT ![s] = "idle"]
  /\ lastRet' = [path |-> "fail", val |-> "err"]
  /\ UNCHANGED <<c_conn, c_channel, consumingCtx, reconnectCh, stopReconnect, ctxCancelled>>
  /\ UNCHANGED <<l_ch, l_conn, cur, explicitCalls>>
  /\ UNCHANGED <<brokerVars, pubVars, svcVars, otherVars, hpc, hi, clpc, babies, hist>>

(* -------------------------- the consumption loop ------------------------ *)
\* Lines 221-237: one select over ctx.Done() and msgs; Go picks among the
\* ready cases without priority.
Loop_Cancelled(s) ==
  /\ pc[s] = "select"
  /\ ctxCancelled
  /\ pc' = [pc EXCEPT ![s] = "defer"]
  /\ UNCHANGED <<l_ch, l_conn, cur, lastRet, explicitCalls>>
  /\ UNCHANGED <<brokerVars, pubVars, svcVars, otherVars, fieldVars, hpc, hi, clpc, babies, hist>>

\* msgs was closed by the library (ok == false), lines 227-231.
Loop_ChanClosed(s) ==
  /\ pc[s] = "select"
  /\ ~registered[s]
  /\ pc' = [pc EXCEPT ![s] = "send"]
  /\ UNCHANGED <<l_ch, l_conn, cur, lastRet, explicitCalls>>
  /\ UNCHANGED <<brokerVars, pubVars, svcVars, otherVars, fieldVars, hpc, hi, clpc, babies, hist>>

\* c.reconnectCh <- true (line 229): a blocking send on a channel of capacity 1.
Loop_Send(s) ==
  /\ pc[s] = "send"
  /\ reconnectCh = 0
  /\ reconnectCh' = 1
  /\ pc' = [pc EXCEPT ![s] = "defer"]
  /\ UNCHANGED <<c_conn, c_channel, isConsuming, consumingCtx, stopReconnect, ctxCancelled>>
  /\ UNCHANGED <<l_ch, l_conn, cur, lastRet, explicitCalls>>
  /\ UNCHANGED <<brokerVars, pubVars, svcVars, otherVars, hpc, hi, clpc, babies, hist>>

\* The deferred function of the loop goroutine, lines 215-219.
Loop_Defer(s) ==
  /\ pc[s] = "defer"
  /\ isConsuming' = FALSE
  /\ pc' = [pc EXCEPT ![s] = "idle"]
  /\ UNCHANGED <<c_conn, c_channel, consumingCtx, reconnectCh, stopReconnect, ctxCancelled>>
  /\ UNCHANGED <<l_ch, l_conn, cur, lastRet, explicitCalls>>
  /\ UNCHANGED <<brokerVars, pubVars, svcVars, otherVars, hpc, hi, clpc, babies, hist>>

\* A delivery is received from msgs and processMessage is entered (226, 235).
Loop_Recv(s) ==
  /\ pc[s] = "select"
  /\ inbox[s] # <<>>
  /\ cur' = [cur EXCEPT ![s] = [NoCur EXCEPT !.msg = Head(inbox[s])]]
  /\ inbox' = [inbox EXCEPT ![s] = Tail(@)]
  /\ pc' = [pc EXCEPT ![s] = "pm_validate"]
  /\ UNCHANGED <<l_ch, l_conn, lastRet, explicitCalls>>
  /\ UNCHANGED <<brokerUp, queue, body, pubVars, svcVars, otherVars, unacked, registered, drops, fails>>
  /\ UNCHANGED <<fieldVars, hpc, hi, clpc, babies, hist>>

(* ----------------------------- processMessage --------------------------- *)
\* A disposition reaches the broker only while the delivery's channel is
\* open and the delivery is still unsettled; otherwise the call returns an
\* error, which processMessage ignores or logs.
Settles(s) == registered[s] /\ cur[s].msg \in unacked[s]

\* msg.Ack(false) / msg.Nack(false, requeue) issued by slot s.
Dispose(s, d) ==
  /\ cur' = [cur EXCEPT ![s].disp = d, ![s].dispN = @ + 1]
  /\ IF Settles(s)
     THEN /\ unacked' = [unacked EXCEPT ![s] = @ \ {cur[s].msg}]
          /\ queue' = IF d = "nack_requeue" THEN <<cur[s].msg>> \o queue ELSE queue
     ELSE UNCHANGED <<unacked, queue>>

\* PM_Validate that returns on a poison message without settling it.
PM_Validate_NoNack(s) ==
  /\ pc[s] = "pm_validate"
  /\ pc' = [pc EXCEPT ![s] = IF Validate(body[cur[s].msg]) # "ok" THEN "pm_ret" ELSE "pm_create"]
  /\ UNCHANGED <<cur, unacked, queue>>
  /\ UNCHANGED <<l_ch, l_conn, lastRet, explicitCalls>>
  /\ UNCHANGED <<brokerUp, body, pubVars, svcVars, otherVars, inbox, registered, drops, fails>>
  /\ UNCHANGED <<fieldVars, hpc, hi, clpc, babies, hist>>

\* PM_Validate without the return that follows the Nack of a poison message.
PM_Validate_NoReturn(s) ==
  /\ pc[s] = "pm_validate"
  /\ IF Validate(body[cur[s].msg]) # "ok"
     THEN Dispose(s, "nack_drop")
     ELSE UNCHANGED <<cur, unacked, queue>>
  /\ pc' = [pc EXCEPT ![s] = "pm_create"]
  /\ UNCHANGED <<l_ch, l_conn, lastRet, explicitCalls>>
  /\ UNCHANGED <<brokerUp, body, pubVars, svcVars, otherVars, inbox, registered, drops, fails>>
  /\ UNCHANGED <<fieldVars, hpc, hi, clpc, babies, hist>>

\* Lines 247-285: unmarshal and validate; a poison message is nacked
\* without requeue and processMessage returns.
PM_Validate(s) ==
  /\ pc[s] = "pm_validate"
  /\ IF Validate(body[cur[s].msg]) # "ok"
     THEN /\ Dispose(s, "nack_drop")
          /\ pc' = [pc EXCEPT ![s] = "pm_ret"]
     ELSE /\ pc' = [pc EXCEPT ![s] = "pm_create"]
          /\ UNCHANGED <<cur, unacked, queue>>
  /\ UNCHANGED <<l_ch, l_conn, lastRet, explicitCalls>>
  /\ UNCHANGED <<brokerUp, body, pubVars, svcVars, otherVars, inbox, registered, drops, fails>>
  /\ UNCHANGED <<fieldVars, hpc, hi, clpc, babies, hist>>

\* Lines 290-291 with BabyService.CreateBaby: the repository insert
\* succeeds or fails; on success a new Baby row exists.
PM_Create(s) ==
  /\ pc[s] = "pm_create"
  /\ \E repoOk \in BOOLEAN :
       LET a == CreateArgs(body[cur[s].msg])
           r == CreateBabyResult(a, repoOk)
       IN /\ repoOk \/ fails < MaxFail
          /\ fails' = IF repoOk THEN fails ELSE fails + 1
          /\ cur' = [cur EXCEPT ![s].args = a, ![s].svc = r, ![s].svcN = @ + 1]
          /\ babies' = IF r = "ok"
                       THEN Append(babies, [LastName |-> a.lastName,
                                            RoomNumber |-> a.roomNumber,
                                            ParentUserID |-> a.parentUserID])
                       ELSE babies
          /\ hist' = IF r = "ok" THEN [hist EXCEPT ![cur[s].msg].created = @ + 1] ELSE hist
  /\ pc' = [pc EXCEPT ![s] = "pm_disp"]
  /\ UNCHANGED <<l_ch, l_conn, lastRet, explicitCalls>>
  /\ UNCHANGED <<brokerUp, queue, body, pubVars, svcVars, otherVars, unacked, inbox, registered, drops>>
  /\ UNCHANGED <<fieldVars, hpc, hi, clpc>>

\* Lines 292-310: nack with requeue on error, ack on success.
PM_Dispose(s) ==
  /\ pc[s] = "pm_disp"
  /\ Dispose(s, DispositionFor(cur[s].svc))
  /\ pc' = [pc EXCEPT ![s] = "pm_ret"]
  /\ UNCHANGED <<l_ch, l_conn, lastRet, explicitCalls>>
  /\ UNCHANGED <<brokerUp, body, pubVars, svcVars, otherVars, inbox, registered, drops, fails>>
  /\ UNCHANGED <<fieldVars, hpc, hi, clpc, babies, hist>>

\* processMessage returns to the loop (line 235-236).
PM_Return(s) ==
  /\ pc[s] = "pm_ret"
  /\ pc' = [pc EXCEPT ![s] = "select"]
  /\ cur' = [cur EXCEPT ![s] = NoCur]
  /\ UNCHANGED <<l_ch, l_conn, lastRet, explicitCalls>>
  /\ UNCHANGED <<brokerVars, pubVars, svcVars, otherVars, fieldVars, hpc, hi, clpc, babies, hist>>

(* --------------------------- handleReconnection ------------------------- *)
\* c.conn / c.channel is overwritten: handles to the previous object go stale.
Stale(h) == [s \in Slots |-> IF h[s] = "live" THEN "stale" ELSE h[s]]

\* select case <-c.reconnectCh (line 118).
H_Wake ==
  /\ hpc = "wait"
  /\ reconnectCh > 0
  /\ reconnectCh' = reconnectCh - 1
  /\ hpc' = "h_close"
  /\ UNCHANGED <<c_conn, c_channel, isConsuming, consumingCtx, stopReconnect, ctxCancelled>>
  /\ UNCHANGED <<brokerVars, pubVars, svcVars, otherVars, slotVars, hi, clpc, babies, hist>>

\* select case <-c.stopReconnect (line 144).
H_Stop ==
  /\ hpc = "wait"
  /\ stopReconnect
  /\ hpc' = "stopped"
  /\ UNCHANGED <<brokerVars, pubVars, svcVars, otherVars, fieldVars, slotVars, hi, clpc, babies, hist>>

\* Lines 120-127: the stale connection and channel are closed under connMutex.
H_CloseStale ==
  /\ hpc = "h_close"
  /\ ConnCloses
  /\ hpc' = "h_dial"
  /\ hi' = 0
  /\ UNCHANGED <<brokerUp, body, pubVars, svcVars, otherVars, drops, fails>>
  /\ UNCHANGED <<isConsuming, consumingCtx, reconnectCh, stopReconnect, ctxCancelled>>
  /\ UNCHANGED <<slotVars, clpc, babies, hist>>

\* connect, lines 73-86: one amqp091.Dial per step; a failed dial stores nil
\* in c.conn, and the third failure makes connect return the error.
H_Dial ==
  /\ hpc = "h_dial"
  /\ IF brokerUp
     THEN /\ c_conn' = "open"
          /\ hpc' = "h_chan"
          /\ hi' = 0
     ELSE /\ c_conn' = "nil"
          /\ hi' = IF hi + 1 = maxRetries THEN 0 ELSE hi + 1
          /\ hpc' = IF hi + 1 = maxRetries THEN "h_requeue" ELSE "h_dial"
  /\ l_conn' = Stale(l_conn)
  /\ UNCHANGED <<c_channel, isConsuming, consumingCtx, reconnectCh, stopReconnect, ctxCancelled>>
  /\ UNCHANGED <<pc, l_ch, cur, lastRet, explicitCalls>>
  /\ UNCHANGED <<brokerVars, pubVars, svcVars, otherVars, clpc, babies, hist>>

\* connect, lines 88-92: c.conn.Channel(); on error nil is stored in
\* c.channel and the connection is closed.
H_Channel ==
  /\ hpc = "h_chan"
  /\ IF c_conn = "open"
     THEN /\ c_channel' = "open"
          /\ hpc' = "h_declare"
     ELSE /\ c_channel' = "nil"
          /\ hpc' = "h_requeue"
  /\ l_ch' = Stale(l_ch)
  /\ UNCHANGED <<c_conn, isConsuming, consumingCtx, reconnectCh, stopReconnect, ctxCancelled>>
  /\ UNCHANGED <<pc, l_conn, cur, lastRet, explicitCalls>>
  /\ UNCHANGED <<brokerVars, pubVars, svcVars, otherVars, hi, clpc, babies, hist>>

\* connect, lines 95-111: QueueDeclare; on error channel and connection are closed.
H_Declare ==
  /\ hpc = "h_declare"
  /\ IF c_channel = "open"
     THEN /\ hpc' = "h_restart"
          /\ UNCHANGED <<queue, unacked, inbox, registered, c_channel, c_conn>>
     ELSE /\ hpc' = "h_requeue"
          /\ ConnCloses
  /\ UNCHANGED <<brokerUp, body, pubVars, svcVars, otherVars, drops, fails>>
  /\ UNCHANGED <<isConsuming, consumingCtx, reconnectCh, stopReconnect, ctxCancelled>>
  /\ UNCHANGED <<slotVars, hi, clpc, babies, hist>>

\* Lines 130-132: after a failed reconnection, sleep and re-queue the
\* request with a blocking send.
H_Requeue ==
  /\ hpc = "h_requeue"
  /\ reconnectCh = 0
  /\ reconnectCh' = 1
  /\ hpc' = "wait"
  /\ UNCHANGED <<c_conn, c_channel, isConsuming, consumingCtx, stopReconnect, ctxCancelled>>
  /\ UNCHANGED <<brokerVars, pubVars, svcVars, otherVars, slotVars, hi, clpc, babies, hist>>

\* Lines 135-142: the decision, under consumingMutex, to restart consumption.
RestartWanted == consumingCtx # "nil" /\ ~ctxCancelled /\ ~isConsuming

RestartStep ==
  /\ hpc = "h_restart"
  /\ hpc' = "wait"
  /\ IF RestartWanted
     THEN /\ FreeSlots # {}
          /\ pc' = [pc EXCEPT ![NextSlot] = "sc_guard"]
     ELSE UNCHANGED pc
  /\ UNCHANGED <<l_ch, l_conn, cur, lastRet, explicitCalls>>
  /\ UNCHANGED <<brokerVars, pubVars, svcVars, mainVars, apiVars, fieldVars, hi, clpc, babies, hist>>

H_Restart == RestartStep /\ UNCHANGED noteVars

\* The same decision, observed: byHandler marks the StartConsuming
\* invocations that line 139 started.
H_RestartNoted ==
  /\ RestartStep
  /\ byHandler' = IF RestartWanted THEN [byHandler EXCEPT ![NextSlot] = TRUE] ELSE byHandler
  /\ UNCHANGED priorCtx

(* --------------------------------- Close -------------------------------- *)
\* Line 317: close(c.stopReconnect).
CL_Stop ==
  /\ clpc = "idle"
  /\ stopReconnect' = TRUE
  /\ clpc' = "mark"
  /\ UNCHANGED <<c_conn, c_channel, isConsuming, consumingCtx, reconnectCh, ctxCancelled>>
  /\ UNCHANGED <<brokerVars, pubVars, svcVars, otherVars, slotVars, hpc, hi, babies, hist>>

\* Lines 320-322: isConsuming is cleared under consumingMutex.
CL_Mark ==
  /\ clpc = "mark"
  /\ isConsuming' = FALSE
  /\ clpc' = "conn"
  /\ UNCHANGED <<c_conn, c_channel, consumingCtx, reconnectCh, stopReconnect, ctxCancelled>>
  /\ UNCHANGED <<brokerVars, pubVars, svcVars, otherVars, slotVars, hpc, hi, babies, hist>>

\* Lines 325-341: channel and connection are closed under connMutex.
CL_Conn ==
  /\ clpc = "conn"
  /\ ConnCloses
  /\ clpc' = "done"
  /\ UNCHANGED <<brokerUp, body, pubVars, svcVars, otherVars, drops, fails>>
  /\ UNCHANGED <<isConsuming, consumingCtx, reconnectCh, stopReconnect, ctxCancelled>>
  /\ UNCHANGED <<slotVars, hpc, hi, babies, hist>>

\* Close called once more after it returned: close(c.stopReconnect) at line
\* 317 runs on a channel that is already closed, which panics; the call
\* does not return and the lines after it are not reached.
CL_Again ==
  /\ clpc = "done"
  /\ stopReconnect
  /\ clpc' = "panic"
  /\ UNCHANGED <<brokerVars, pubVars, svcVars, otherVars, fieldVars, slotVars, hpc, hi, babies, hist>>


(* --------------------------------- main --------------------------------- *)
\* cmd/api/main.go, graceful shutdown (lines 132-151).  The shutdown signal
\* arrives and main calls consumerCancel(), which returns at once: it
\* waits for no goroutine (lines 135-141).
M_Cancel ==
  /\ m_pc = "serving"
  /\ m_pc' = "cancelled"
  /\ ctxCancelled' = TRUE
  /\ UNCHANGED <<c_conn, c_channel, isConsuming, consumingCtx, reconnectCh, stopReconnect>>
  /\ UNCHANGED <<brokerVars, pubVars, svcVars, noteVars, apiVars, slotVars, hpc, hi, clpc, babies, hist>>

\* server.Shutdown(shutdownCtx) is entered: the teardown of the HTTP
\* server begins (lines 144-147).
M_Shutdown ==
  /\ m_pc = "cancelled"
  /\ m_pc' = "shutdown"
  /\ UNCHANGED <<consumerVars, pubVars, svcVars, noteVars, apiVars>>

\* server.Shutdown returned and main leaves (lines 147-152).
M_Exit ==
  /\ m_pc = "shutdown"
  /\ m_pc' = "exited"
  /\ UNCHANGED <<consumerVars, pubVars, svcVars, noteVars, apiVars>>


(* ----------------------------- specifications --------------------------- *)
(* ============================ RabbitMQPublisher ========================= *)
Callers == 1..MaxCallers

\* Go error values: a kind and the kind of the error it wraps; nil is NilErr.
NilErr == [kind |-> "nil", cause |-> "nil"]
ErrOpenState == [kind |-> "ErrOpenState", cause |-> "nil"]
ErrTooManyRequests == [kind |-> "ErrTooManyRequests", cause |-> "nil"]
PublishErr == [kind |-> "publish_error", cause |-> "nil"]
MarshalErr == [kind |-> "marshal_error", cause |-> "nil"]

\* Errorf that hands back the wrapped error itself.
Errorf_Bare(msg, e) == e

\* fmt.Errorf("...: %w", e), lines 632 and 688: a new, non-nil error
\* whatever e is, nil included.
Errorf(msg, e) == [kind |-> msg, cause |-> e.kind]

ZeroCounts == [requests |-> 0, consecFail |-> 0, consecSucc |-> 0]
NoCall == [called |-> FALSE, err |-> NilErr, oks |-> 0]

(* ----------------------------- alert messages --------------------------- *)
\* The measurement handed to PublishAlert: *domain.Measurement with its
\* type, its value in tenths and its safety status.
FeverMeasurement == [id |-> 1, type |-> "temperature", value |-> 390, status |-> "red"]
AlertValues == {359, 360, 380, 381, 390}
AlertMeasurements ==
  {[id |-> 1, type |-> t, value |-> v, status |-> st] :
     t \in {"temperature", "weight", "feeding", "diaper", "height"},
     v \in AlertValues, st \in {"red", "yellow"}}

\* alertType with the thresholds included.
AlertType_Inclusive(m) ==
  IF m.type = "temperature"
  THEN IF m.value >= TemperatureYellowMax THEN "high_temperature_critical"
       ELSE IF m.value <= TemperatureYellowMin THEN "low_temperature_critical"
       ELSE "critical_measurement"
  ELSE IF m.type = "weight" THEN "invalid_weight"
  ELSE "critical_measurement"

\* publishWithRetry, lines 598-608: alertType.
AlertType(m) ==
  IF m.type = "temperature"
  THEN IF m.value > TemperatureYellowMax THEN "high_temperature_critical"
       ELSE IF m.value < TemperatureYellowMin THEN "low_temperature_critical"
       ELSE "critical_measurement"
  ELSE IF m.type = "weight" THEN "invalid_weight"
  ELSE "critical_measurement"

\* AlertEvent as built at lines 610-617 (BabyID and Timestamp left out).
NewAlertEvent(m) ==
  [Measurement |-> m, AlertType |-> AlertType(m),
   SafetyStatus |-> m.status, Severity |-> "critical"]

\* json.Marshal(event), line 630, by the struct tags of lines 471-478.
Marshal(e) ==
  [measurement |-> e.Measurement, alert_type |-> e.AlertType,
   safety_status |-> e.SafetyStatus, severity |-> e.Severity]
NoBody ==
  [measurement |-> [id |-> 0, type |-> "", value |-> 0, status |-> ""],
   alert_type |-> "", safety_status |-> "", severity |-> ""]

\* p.queueName (lines 482-484) and the queue connect declares, lines 541-548.
queueName == "baby_alerts"
DeclaredQueue == [name |-> queueName, durable |-> TRUE, autoDelete |-> FALSE, exclusive |-> FALSE]

\* The message with a transient delivery mode.
Publish_Transient(b) ==
  [exchange |-> "", key |-> queueName, mandatory |-> FALSE, immediate |-> FALSE,
   ContentType |-> "application/json", DeliveryMode |-> "transient", Body |-> b]

\* ch.PublishWithContext, lines 653-665: the exchange, the routing key, the
\* flags and the amqp091.Publishing (Timestamp left out).
Publish(b) ==
  [exchange |-> "", key |-> queueName, mandatory |-> FALSE, immediate |-> FALSE,
   ContentType |-> "application/json", DeliveryMode |-> "persistent", Body |-> b]
NoMessage ==
  [exchange |-> "", key |-> "", mandatory |-> FALSE, immediate |-> FALSE,
   ContentType |-> "", DeliveryMode |-> "", Body |-> NoBody]

\* NewRabbitMQPublisher, lines 481-515: the breaker is closed and the
\* first connect succeeded (otherwise no publisher is returned).
PublisherState(inputs, pending, ret) ==
  /\ p_up = TRUE
  /\ p_conn = "open"
  /\ p_channel = "open"
  /\ p_reconnectCh = pending
  /\ p_hpc = "wait"
  /\ p_hi = 0
  /\ cbState = "closed"
  /\ cbCounts = ZeroCounts
  /\ p_pc = [c \in Callers |-> "idle"]
  /\ p_i = [c \in Callers |-> 0]
  /\ p_lastErr = [c \in Callers |-> NilErr]
  /\ p_err = [c \in Callers |-> NilErr]
  /\ p_oks = [c \in Callers |-> 0]
  /\ p_sleeps = [c \in Callers |-> 0]
  /\ p_stale = [c \in Callers |-> FALSE]
  /\ p_lastRet = ret
  /\ p_run = 0
  /\ p_input \in inputs
  /\ p_body = [c \in Callers |-> NoBody]
  /\ p_out = [c \in Callers |-> NoMessage]

PublisherStart(inputs) == PublisherState(inputs, 0, NoCall)

PublisherInit == PublisherStart({FeverMeasurement})

\* The publisher when a PublishAlert has returned nil after a failed first
\* attempt and a successful second one: the reconnection requested at
\* lines 680-683 is pending, the breaker has recorded a success.
PublisherAfterRetry ==
  PublisherState({FeverMeasurement}, 1, [called |-> TRUE, err |-> NilErr, oks |-> 1])

(* ---------------------------- circuit breaker --------------------------- *)
\* gobreaker setState / toNewGeneration: the counts are cleared and the
\* requests in flight, all but the one of caller c that is returning,
\* belong to an older generation.
NewGeneration(st, c) ==
  /\ cbState' = st
  /\ cbCounts' = ZeroCounts
  /\ p_stale' = [d \in Callers |-> d # c /\ p_pc[d] # "idle"]

\* Settings.Timeout (line 499) elapsed in the open state.
CB_Timeout ==
  /\ cbState = "open"
  /\ NewGeneration("half-open", 0)
  /\ UNCHANGED <<p_pc, p_i, p_lastErr, p_err, p_sleeps, p_oks, p_lastRet, p_run, p_input, p_body, p_out>>
  /\ UNCHANGED <<pubConnVars, consumerVars, svcVars, otherVars>>

\* Settings.Interval (line 498) elapsed in the closed state.
CB_Interval ==
  /\ cbState = "closed"
  /\ cbCounts # ZeroCounts
  /\ NewGeneration("closed", 0)
  /\ UNCHANGED <<p_pc, p_i, p_lastErr, p_err, p_sleeps, p_oks, p_lastRet, p_run, p_input, p_body, p_out>>
  /\ UNCHANGED <<pubConnVars, consumerVars, svcVars, otherVars>>

\* cb.beforeRequest that does not limit the half-open state.
BeforeRequest_NoBudget ==
  IF cbState = "open" THEN ErrOpenState ELSE NilErr

\* The error cb.Execute returns without running the request, if any.
BeforeRequest ==
  IF cbState = "open" THEN ErrOpenState
  ELSE IF cbState = "half-open" /\ cbCounts.requests >= cbMaxRequests THEN ErrTooManyRequests
  ELSE NilErr

\* counts.onRequest; Requests is read in the half-open state only.
OnRequest == [cbCounts EXCEPT !.requests = IF cbState = "half-open" THEN @ + 1 ELSE @]

\* cb.afterRequest with ReadyToTrip at ConsecutiveFailures >= 5.
AfterRequest_TripAtFive(c, e) ==
  IF p_stale[c]
  THEN /\ p_stale' = [p_stale EXCEPT ![c] = FALSE]
       /\ UNCHANGED <<cbState, cbCounts>>
  ELSE IF e = NilErr
  THEN IF cbState = "half-open" /\ cbCounts.consecSucc + 1 >= cbMaxRequests
       THEN NewGeneration("closed", c)
       ELSE /\ cbCounts' = [cbCounts EXCEPT !.consecFail = 0,
                              !.consecSucc = IF cbState = "half-open" THEN @ + 1 ELSE @]
            /\ UNCHANGED <<cbState, p_stale>>
  ELSE IF cbState = "half-open" \/ cbCounts.consecFail + 1 >= cbTripAfter
       THEN NewGeneration("open", c)
       ELSE /\ cbCounts' = [cbCounts EXCEPT !.consecFail = @ + 1, !.consecSucc = 0]
            /\ UNCHANGED <<cbState, p_stale>>

\* cb.afterRequest for caller c whose request returned e; ConsecutiveSuccesses
\* is read in the half-open state only.
AfterRequest(c, e) ==
  IF p_stale[c]
  THEN /\ p_stale' = [p_stale EXCEPT ![c] = FALSE]
       /\ UNCHANGED <<cbState, cbCounts>>
  ELSE IF e = NilErr
  THEN IF cbState = "half-open" /\ cbCounts.consecSucc + 1 >= cbMaxRequests
       THEN NewGeneration("closed", c)
       ELSE /\ cbCounts' = [cbCounts EXCEPT !.consecFail = 0,
                              !.consecSucc = IF cbState = "half-open" THEN @ + 1 ELSE @]
            /\ UNCHANGED <<cbState, p_stale>>
  ELSE IF cbState = "half-open" \/ cbCounts.consecFail + 1 > cbTripAfter
       THEN NewGeneration("open", c)
       ELSE /\ cbCounts' = [cbCounts EXCEPT !.consecFail = @ + 1, !.consecSucc = 0]
            /\ UNCHANGED <<cbState, p_stale>>

(* ------------------------------ PublishAlert ---------------------------- *)
\* select { case p.reconnectCh <- true: default: }, lines 645-648 and 680-683.
Signalled == IF p_reconnectCh = 0 THEN 1 ELSE p_reconnectCh

\* PublishAlert whose refused call is counted as a failure.
P_Call_RefusalCounted(c) ==
  /\ p_pc[c] = "idle"
  /\ IF BeforeRequest # NilErr
     THEN /\ p_lastRet' = [called |-> TRUE, err |-> BeforeRequest, oks |-> 0]
          /\ cbCounts' = [cbCounts EXCEPT !.consecFail = @ + 1]
          /\ UNCHANGED <<p_pc, p_err, p_body>>
     ELSE /\ cbCounts' = OnRequest
          /\ UNCHANGED p_lastRet
          /\ \E marshalOk \in BOOLEAN :
               IF marshalOk
               THEN /\ p_pc' = [p_pc EXCEPT ![c] = "attempt"]
                    /\ p_body' = [p_body EXCEPT ![c] = Marshal(NewAlertEvent(p_input))]
                    /\ UNCHANGED p_err
               ELSE /\ p_pc' = [p_pc EXCEPT ![c] = "after"]
                    /\ UNCHANGED p_body
                    /\ p_err' = [p_err EXCEPT ![c] = Errorf("failed to marshal alert event", MarshalErr)]
  /\ UNCHANGED <<p_i, p_lastErr, p_sleeps, p_oks, p_stale, p_run, p_input, p_out>>
  /\ UNCHANGED <<cbState, pubConnVars, consumerVars, svcVars, otherVars>>

\* PublishAlert, lines 587-592, up to the retry loop: cb.Execute refuses
\* the call, or publishWithRetry starts and marshals the event (json.Marshal
\* fails on a measurement value that JSON cannot carry).
P_Call(c) ==
  /\ p_pc[c] = "idle"
  /\ IF BeforeRequest # NilErr
     THEN /\ p_lastRet' = [called |-> TRUE, err |-> BeforeRequest, oks |-> 0]
          /\ UNCHANGED <<p_pc, p_err, p_body, cbCounts>>
     ELSE /\ cbCounts' = OnRequest
          /\ UNCHANGED p_lastRet
          /\ \E marshalOk \in BOOLEAN :
               IF marshalOk
               THEN /\ p_pc' = [p_pc EXCEPT ![c] = "attempt"]
                    /\ p_body' = [p_body EXCEPT ![c] = Marshal(NewAlertEvent(p_input))]
                    /\ UNCHANGED p_err
               ELSE /\ p_pc' = [p_pc EXCEPT ![c] = "after"]
                    /\ UNCHANGED p_body
                    /\ p_err' = [p_err EXCEPT ![c] = Errorf("failed to marshal alert event", MarshalErr)]
  /\ UNCHANGED <<p_i, p_lastErr, p_sleeps, p_oks, p_stale, p_run, p_input, p_out>>
  /\ UNCHANGED <<cbState, pubConnVars, consumerVars, svcVars, otherVars>>

\* P_Attempt whose breaker wraps each attempt: a failed or skipped attempt
\* is counted as a failure of its own.
P_Attempt_EachCounted(c) ==
  /\ p_pc[c] = "attempt"
  /\ p_i[c] < maxRetries
  /\ IF p_channel = "nil" \/ p_conn # "open"
     THEN /\ p_reconnectCh' = Signalled
          /\ p_sleeps' = [p_sleeps EXCEPT ![c] = @ + 1]
          /\ p_i' = [p_i EXCEPT ![c] = @ + 1]
          /\ cbCounts' = [cbCounts EXCEPT !.consecFail = IF @ < cbTripAfter THEN @ + 1 ELSE @]
          /\ UNCHANGED <<p_pc, p_err, p_lastErr, p_oks, p_out>>
     ELSE \E ok \in BOOLEAN :
            /\ ok => (p_up /\ p_channel = "open")
            /\ p_out' = [p_out EXCEPT ![c] = Publish(p_body[c])]
            /\ IF ok
               THEN /\ p_oks' = [p_oks EXCEPT ![c] = @ + 1]
                    /\ p_err' = [p_err EXCEPT ![c] = NilErr]
                    /\ p_pc' = [p_pc EXCEPT ![c] = "after"]
                    /\ UNCHANGED <<p_i, p_lastErr, p_sleeps, p_reconnectCh, cbCounts>>
               ELSE /\ p_lastErr' = [p_lastErr EXCEPT ![c] = PublishErr]
                    /\ p_reconnectCh' = IF p_i[c] < maxRetries - 1 THEN Signalled ELSE p_reconnectCh
                    /\ p_sleeps' = [p_sleeps EXCEPT ![c] = IF p_i[c] < maxRetries - 1 THEN @ + 1 ELSE @]
                    /\ p_i' = [p_i EXCEPT ![c] = @ + 1]
                    /\ cbCounts' = [cbCounts EXCEPT !.consecFail = IF @ < cbTripAfter THEN @ + 1 ELSE @]
                    /\ UNCHANGED <<p_pc, p_err, p_oks>>
  /\ UNCHANGED <<p_stale, p_lastRet, p_run, p_input, p_body, cbState>>
  /\ UNCHANGED <<p_up, p_conn, p_channel, p_hpc, p_hi, consumerVars, svcVars, otherVars>>


\* P_Attempt whose skipped attempt does not count: the loop waits for the
\* connection to come back.
P_Attempt_SkipUncounted(c) ==
  /\ p_pc[c] = "attempt"
  /\ p_i[c] < maxRetries
  /\ IF p_channel = "nil" \/ p_conn # "open"
     THEN /\ p_reconnectCh' = Signalled
          /\ p_sleeps' = [p_sleeps EXCEPT ![c] = IF @ < maxRetries THEN @ + 1 ELSE @]
          /\ UNCHANGED <<p_i, p_pc, p_err, p_lastErr, p_oks, p_out>>
     ELSE \E ok \in BOOLEAN :
            /\ ok => (p_up /\ p_channel = "open")
            /\ p_out' = [p_out EXCEPT ![c] = Publish(p_body[c])]
            /\ IF ok
               THEN /\ p_oks' = [p_oks EXCEPT ![c] = @ + 1]
                    /\ p_err' = [p_err EXCEPT ![c] = NilErr]
                    /\ p_pc' = [p_pc EXCEPT ![c] = "after"]
                    /\ UNCHANGED <<p_i, p_lastErr, p_sleeps, p_reconnectCh>>
               ELSE /\ p_lastErr' = [p_lastErr EXCEPT ![c] = PublishErr]
                    /\ p_reconnectCh' = IF p_i[c] < maxRetries - 1 THEN Signalled ELSE p_reconnectCh
                    /\ p_sleeps' = [p_sleeps EXCEPT ![c] = IF p_i[c] < maxRetries - 1 /\ @ < maxRetries THEN @ + 1 ELSE @]
                    /\ p_i' = [p_i EXCEPT ![c] = @ + 1]
                    /\ UNCHANGED <<p_pc, p_err, p_oks>>
  /\ UNCHANGED <<p_stale, p_lastRet, p_run, p_input, p_body, cbVars>>
  /\ UNCHANGED <<p_up, p_conn, p_channel, p_hpc, p_hi, consumerVars, svcVars, otherVars>>

\* One pass of the retry loop, lines 637-685: on a dead connection the
\* attempt is skipped after a reconnect signal; otherwise
\* PublishWithContext runs and its success ends the call.
P_Attempt(c) ==
  /\ p_pc[c] = "attempt"
  /\ p_i[c] < maxRetries
  /\ IF p_channel = "nil" \/ p_conn # "open"
     THEN /\ p_reconnectCh' = Signalled
          /\ p_sleeps' = [p_sleeps EXCEPT ![c] = @ + 1]
          /\ p_i' = [p_i EXCEPT ![c] = @ + 1]
          /\ UNCHANGED <<p_pc, p_err, p_lastErr, p_oks, p_out>>
     ELSE \E ok \in BOOLEAN :
            /\ ok => (p_up /\ p_channel = "open")
            /\ p_out' = [p_out EXCEPT ![c] = Publish(p_body[c])]
            /\ IF ok
               THEN /\ p_oks' = [p_oks EXCEPT ![c] = @ + 1]
                    /\ p_err' = [p_err EXCEPT ![c] = NilErr]
                    /\ p_pc' = [p_pc EXCEPT ![c] = "after"]
                    /\ UNCHANGED <<p_i, p_lastErr, p_sleeps, p_reconnectCh>>
               ELSE /\ p_lastErr' = [p_lastErr EXCEPT ![c] = PublishErr]
                    /\ p_reconnectCh' = IF p_i[c] < maxRetries - 1 THEN Signalled ELSE p_reconnectCh
                    /\ p_sleeps' = [p_sleeps EXCEPT ![c] = IF p_i[c] < maxRetries - 1 THEN @ + 1 ELSE @]
                    /\ p_i' = [p_i EXCEPT ![c] = @ + 1]
                    /\ UNCHANGED <<p_pc, p_err, p_oks>>
  /\ UNCHANGED <<p_stale, p_lastRet, p_run, p_input, p_body, cbVars>>
  /\ UNCHANGED <<p_up, p_conn, p_channel, p_hpc, p_hi, consumerVars, svcVars, otherVars>>

\* Line 688: the loop ran out of attempts.
P_Exhausted(c) ==
  /\ p_pc[c] = "attempt"
  /\ p_i[c] = maxRetries
  /\ p_err' = [p_err EXCEPT ![c] = Errorf("failed to publish alert after retries", p_lastErr[c])]
  /\ p_pc' = [p_pc EXCEPT ![c] = "after"]
  /\ UNCHANGED <<p_i, p_lastErr, p_sleeps, p_oks, p_stale, p_lastRet, p_run, p_input, p_body, p_out>>
  /\ UNCHANGED <<cbVars, pubConnVars, consumerVars, svcVars, otherVars>>

\* cb.Execute accounts for the outcome and PublishAlert returns it.
Returns(c) ==
  /\ p_pc[c] = "after"
  /\ AfterRequest(c, p_err[c])
  /\ p_lastRet' = [called |-> TRUE, err |-> p_err[c], oks |-> p_oks[c]]
  /\ p_pc' = [p_pc EXCEPT ![c] = "idle"]
  /\ p_i' = [p_i EXCEPT ![c] = 0]
  /\ p_lastErr' = [p_lastErr EXCEPT ![c] = NilErr]
  /\ p_err' = [p_err EXCEPT ![c] = NilErr]
  /\ p_oks' = [p_oks EXCEPT ![c] = 0]
  /\ p_sleeps' = [p_sleeps EXCEPT ![c] = 0]
  /\ p_body' = [p_body EXCEPT ![c] = NoBody]
  /\ p_out' = [p_out EXCEPT ![c] = NoMessage]
  /\ UNCHANGED <<p_input, pubConnVars, consumerVars, svcVars, otherVars>>

P_Return(c) == Returns(c) /\ UNCHANGED p_run

\* The same return, observed: p_run counts the failed calls in a row that
\* the breaker let through and that returned while it was closed, up to
\* one more than the trip threshold.
P_ReturnCounted(c) ==
  /\ Returns(c)
  /\ p_run' = IF p_err[c] = NilErr \/ cbState' # "closed" THEN 0
              ELSE IF p_run <= cbTripAfter THEN p_run + 1 ELSE p_run

(* ------------------- the publisher's connection handling ---------------- *)
\* The broker becomes unreachable: the publisher's connection is severed.
P_BrokerDown ==
  /\ p_up
  /\ p_up' = FALSE
  /\ p_conn' = IF p_conn = "open" THEN "closed" ELSE p_conn
  /\ p_channel' = IF p_channel = "open" THEN "closed" ELSE p_channel
  /\ UNCHANGED <<p_reconnectCh, p_hpc, p_hi, cbVars, callVars, consumerVars, svcVars, otherVars>>

P_BrokerBack ==
  /\ ~p_up
  /\ p_up' = TRUE
  /\ UNCHANGED <<p_conn, p_channel, p_reconnectCh, p_hpc, p_hi>>
  /\ UNCHANGED <<cbVars, callVars, consumerVars, svcVars, otherVars>>

\* handleReconnection, lines 565-573: a signal is taken and the channel
\* and the connection are closed under connMutex.
P_H_Wake ==
  /\ p_hpc = "wait"
  /\ p_reconnectCh > 0
  /\ p_reconnectCh' = p_reconnectCh - 1
  /\ p_conn' = IF p_conn = "open" THEN "closed" ELSE p_conn
  /\ p_channel' = IF p_channel = "open" THEN "closed" ELSE p_channel
  /\ p_hpc' = "dial"
  /\ p_hi' = 0
  /\ UNCHANGED <<p_up, cbVars, callVars, consumerVars, svcVars, otherVars>>

\* connect, lines 520-533: amqp091.Dial is assigned to p.conn at each try,
\* nil on failure; after maxRetries failures connect returns the error.
P_H_Dial ==
  /\ p_hpc = "dial"
  /\ IF p_up
     THEN /\ p_conn' = "open"
          /\ p_hpc' = "chan"
          /\ p_hi' = 0
     ELSE /\ p_conn' = "nil"
          /\ p_hi' = IF p_hi + 1 < maxRetries THEN p_hi + 1 ELSE 0
          /\ p_hpc' = IF p_hi + 1 < maxRetries THEN "dial" ELSE "failed"
  /\ UNCHANGED <<p_up, p_channel, p_reconnectCh, cbVars, callVars, consumerVars, svcVars, otherVars>>

\* connect, lines 535-539: conn.Channel() is assigned to p.channel, nil on
\* failure, and a failure closes the connection and returns the error.
P_H_Channel ==
  /\ p_hpc = "chan"
  /\ IF p_up /\ p_conn = "open"
     THEN /\ p_channel' = "open"
          /\ p_hpc' = "declare"
          /\ UNCHANGED p_conn
     ELSE /\ p_channel' = "nil"
          /\ p_conn' = IF p_conn = "open" THEN "closed" ELSE p_conn
          /\ p_hpc' = "failed"
  /\ UNCHANGED <<p_up, p_reconnectCh, p_hi, cbVars, callVars, consumerVars, svcVars, otherVars>>

\* connect that leaves the channel open when QueueDeclare fails.
P_H_Declare_LeavesOpen ==
  /\ p_hpc = "declare"
  /\ IF p_up /\ p_channel = "open"
     THEN /\ p_hpc' = "wait"
          /\ UNCHANGED <<p_conn, p_channel>>
     ELSE /\ p_channel' = "open"
          /\ p_conn' = IF p_conn = "open" THEN "closed" ELSE p_conn
          /\ p_hpc' = "failed"
  /\ UNCHANGED <<p_up, p_reconnectCh, p_hi, cbVars, callVars, consumerVars, svcVars, otherVars>>

\* connect, lines 541-558: QueueDeclare; a failure closes the channel and
\* the connection and returns the error, otherwise connect returns nil.
P_H_Declare ==
  /\ p_hpc = "declare"
  /\ IF p_up /\ p_channel = "open"
     THEN /\ p_hpc' = "wait"
          /\ UNCHANGED <<p_conn, p_channel>>
     ELSE /\ p_channel' = IF p_channel = "open" THEN "closed" ELSE p_channel
          /\ p_conn' = IF p_conn = "open" THEN "closed" ELSE p_conn
          /\ p_hpc' = "failed"
  /\ UNCHANGED <<p_up, p_reconnectCh, p_hi, cbVars, callVars, consumerVars, svcVars, otherVars>>

\* handleReconnection, lines 576-578: the error of connect is logged and the
\* handler waits for the next request.
P_H_Failed ==
  /\ p_hpc = "failed"
  /\ p_hpc' = "wait"
  /\ UNCHANGED <<p_up, p_conn, p_channel, p_reconnectCh, p_hi, cbVars, callVars, consumerVars, svcVars, otherVars>>

(* ========================= measurement service ========================= *)
\* internal/core/services/measurement_service.go.  Values are kept in
\* tenths of the unit of the request (0.1 degree Celsius, 0.1 gram), so
\* that 36.0 is 360 and 10000 is 100000.
Reqs == 1..MaxReqs
MeasurementTypes == {"feeding", "weight", "temperature", "diaper"}
RequestTypes == MeasurementTypes \cup {"height"}
TemperatureValues == {299, 300, 359, 360, 370, 380, 381, 420, 421}
WeightValues == {0, 1, 100000, 100001}
NoCelsius == [set |-> FALSE, v |-> 0]
CelsiusValues == {NoCelsius} \cup {[set |-> TRUE, v |-> v] : v \in {370, 395, 430}}
\* The type-specific part of a request, by what the code makes of it:
\* "" is an empty FeedingType / DiaperStatus, "invalid" is one that
\* setFeedingFields / setDiaperFields refuses, "valid" one they accept.
Details == {"", "invalid", "valid"}

Requests ==
  {[type |-> "temperature", value |-> v, celsius |-> c, detail |-> ""] :
      v \in TemperatureValues, c \in CelsiusValues}
  \cup {[type |-> "weight", value |-> v, celsius |-> NoCelsius, detail |-> ""] :
      v \in WeightValues}
  \cup {[type |-> "height", value |-> 1, celsius |-> NoCelsius, detail |-> ""]}
  \cup {[type |-> t, value |-> 0, celsius |-> NoCelsius, detail |-> d] :
      t \in {"feeding", "diaper"}, d \in Details}
NoRequest == [type |-> "", value |-> 0, celsius |-> NoCelsius, detail |-> ""]

\* domain.IsValidMeasurementType, baby.go 114-122.
IsValidMeasurementType(t) == t \in MeasurementTypes

\* domain.CalculateSafetyStatus, baby.go 136-164.
CalculateSafetyStatus(t, v) ==
  IF t = "temperature"
  THEN IF v >= TemperatureNormalMin /\ v <= TemperatureNormalMax THEN "green"
       ELSE IF v >= TemperatureYellowMin /\ v < TemperatureNormalMin THEN "yellow"
       ELSE IF v > TemperatureNormalMax /\ v <= TemperatureYellowMax THEN "yellow"
       ELSE "red"
  ELSE IF t = "weight"
  THEN IF v > 0 THEN "green" ELSE "yellow"
  ELSE "green"

\* MeasurementService.validateMeasurement, lines 181-220: "nil" or the error.
validateMeasurement(req) ==
  IF req.type = "temperature"
  THEN IF req.value < temperatureMin \/ req.value > temperatureMax
       THEN "temperature must be between 30.0 and 42.0" ELSE "nil"
  ELSE IF req.type = "weight"
  THEN IF req.value <= 0 THEN "weight must be greater than 0 grams"
       ELSE IF req.value > weightMax THEN "weight exceeds reasonable maximum"
       ELSE "nil"
  ELSE IF req.type = "feeding"
  THEN IF req.detail = "" THEN "feeding type must be specified" ELSE "nil"
  ELSE IF req.type = "diaper"
  THEN IF req.detail = "" THEN "diaper status must be specified" ELSE "nil"
  ELSE "unsupported measurement type"

NoMeasurement == [id |-> 0, type |-> "", value |-> 0, status |-> ""]

\* setFeedingFields / setTemperatureFields / setDiaperFields,
\* measurement_helpers.go 11-120, as called by the switch of lines
\* 132-145: the measurement with its value rewritten, or the error.  The
\* safety status is the one computed before, from req.Value.
SetFields(m, req) ==
  IF req.type = "feeding"
  THEN IF req.detail = "valid"
       THEN [m |-> [m EXCEPT !.value = 1], err |-> "nil"]
       ELSE [m |-> m, err |-> "invalid feeding fields"]
  ELSE IF req.type = "temperature"
  THEN LET tempValue == IF req.celsius.set THEN req.celsius.v ELSE req.value
       IN IF tempValue < temperatureMin \/ tempValue > temperatureMax
          THEN [m |-> m, err |-> "temperature must be between 30.0 and 42.0"]
          ELSE [m |-> [m EXCEPT !.value = tempValue], err |-> "nil"]
  ELSE IF req.type = "diaper"
  THEN IF req.detail = "valid"
       THEN [m |-> [m EXCEPT !.value = 0], err |-> "nil"]
       ELSE [m |-> m, err |-> "invalid diaper status"]
  ELSE [m |-> m, err |-> "nil"]

\* What the repositories answer: BabyExists and CheckBabyOwnership give
\* an error, false or true; CreateMeasurement gives an error or nil.
RepoAnswers == {"err", "no", "yes"}

Rejected(e) == [stored |-> NoMeasurement, spawn |-> FALSE, m |-> NoMeasurement, err |-> e]

\* The measurement needs an alert, line 158.
RequiresAlert_NotGreen(m) == m.status # "green"

RequiresAlert(m) == m.status = "red"

\* The body of CreateMeasurementWithDetails, lines 73-177, for the request
\* req of a caller who is or is not an admin, given the answers of the
\* repositories and whether more than 2 s had passed at line 172: the
\* measurement stored, whether the alert goroutine is started, and the
\* pair returned.
Handle(id, req, isAdmin, exists, owned, saved, slow) ==
  IF ~IsValidMeasurementType(req.type) THEN Rejected("invalid measurement type")
  ELSE IF validateMeasurement(req) # "nil" THEN Rejected(validateMeasurement(req))
  ELSE IF exists = "err" THEN Rejected("failed to check baby existence")
  ELSE IF exists = "no" THEN Rejected("baby not found")
  ELSE IF isAdmin THEN Rejected("forbidden: only PARENT can create measurements")
  ELSE IF owned = "err" THEN Rejected("failed to check ownership")
  ELSE IF owned = "no" THEN Rejected("baby not found")
  ELSE LET m0 == [id |-> id, type |-> req.type, value |-> req.value,
                  status |-> CalculateSafetyStatus(req.type, req.value)]
           sf == SetFields(m0, req)
       IN IF sf.err # "nil" THEN Rejected(sf.err)
          ELSE IF ~saved THEN Rejected("failed to create measurement")
          ELSE [stored |-> sf.m, spawn |-> RequiresAlert(sf.m),
                m |-> IF slow THEN NoMeasurement ELSE sf.m,
                err |-> IF slow THEN "operation exceeded 2s timeout" ELSE "nil"]

ServiceInit ==
  /\ s_pc = [r \in Reqs |-> "idle"]
  /\ s_req = [r \in Reqs |-> NoRequest]
  /\ s_admin = [r \in Reqs |-> FALSE]
  /\ s_ret = [r \in Reqs |-> Rejected("nil")]
  /\ s_ctxDone = [r \in Reqs |-> FALSE]
  /\ g_pc = [r \in Reqs |-> "none"]
  /\ g_ctx = [r \in Reqs |-> "none"]
  /\ g_arg = [r \in Reqs |-> NoMeasurement]
  /\ g_err = [r \in Reqs |-> NilErr]
  /\ invoked = [r \in Reqs |-> 0]

\* One call of CreateMeasurementWithDetails, lines 65-178, from entry to
\* return.  uuid.New() gives request r the identifier r.  The goroutine of
\* lines 159-168 is started, not waited for.
CreateMeasurementWithDetails(r) ==
  /\ s_pc[r] = "idle"
  /\ \E req \in Requests, isAdmin \in BOOLEAN, exists \in RepoAnswers,
        owned \in RepoAnswers, saved \in BOOLEAN, slow \in BOOLEAN :
       LET out == Handle(r, req, isAdmin, exists, owned, saved, slow)
       IN /\ s_req' = [s_req EXCEPT ![r] = req]
          /\ s_admin' = [s_admin EXCEPT ![r] = isAdmin]
          /\ s_ret' = [s_ret EXCEPT ![r] = out]
          /\ g_pc' = [g_pc EXCEPT ![r] = IF out.spawn THEN "spawned" ELSE "none"]
  /\ s_pc' = [s_pc EXCEPT ![r] = "returned"]
  /\ UNCHANGED <<s_ctxDone, g_ctx, g_arg, g_err, invoked>>
  /\ UNCHANGED <<consumerVars, pubVars, otherVars>>

\* The context of request r is cancelled: the handler has returned or the
\* client has gone.
RequestDone(r) ==
  /\ s_pc[r] = "returned"
  /\ ~s_ctxDone[r]
  /\ s_ctxDone' = [s_ctxDone EXCEPT ![r] = TRUE]
  /\ UNCHANGED <<s_pc, s_req, s_admin, s_ret, g_pc, g_ctx, g_arg, g_err, invoked>>
  /\ UNCHANGED <<consumerVars, pubVars, otherVars>>

\* The context the goroutine hands to PublishAlert, line 161.
AlertContext == "background"

Cancelled(ctx, r) == ctx = "request" /\ s_ctxDone[r]

\* The goroutine reaches line 162 and calls PublishAlert with the
\* measurement the handler built.
G_PublishAlert(r) ==
  /\ g_pc[r] = "spawned"
  /\ g_pc' = [g_pc EXCEPT ![r] = "calling"]
  /\ g_ctx' = [g_ctx EXCEPT ![r] = AlertContext]
  /\ g_arg' = [g_arg EXCEPT ![r] = s_ret[r].stored]
  /\ invoked' = [invoked EXCEPT ![r] = @ + 1]
  /\ UNCHANGED <<s_pc, s_req, s_admin, s_ret, s_ctxDone, g_err>>
  /\ UNCHANGED <<consumerVars, pubVars, otherVars>>

\* What PublishAlert can return (P_Call, P_Return): nil, the breaker's two
\* refusals, the marshalling error and the error after the retries.  A
\* cancelled context makes PublishWithContext fail.
PublishOutcomes(ctx, r) ==
  {ErrOpenState, ErrTooManyRequests,
   Errorf("failed to marshal alert event", MarshalErr),
   Errorf("failed to publish alert after retries", PublishErr),
   Errorf("failed to publish alert after retries", NilErr)}
  \cup (IF Cancelled(ctx, r) THEN {} ELSE {NilErr})

\* PublishAlert that hands its error to the request.
G_Return_Escalates(r) ==
  /\ g_pc[r] = "calling"
  /\ \E e \in PublishOutcomes(g_ctx[r], r) :
       /\ g_err' = [g_err EXCEPT ![r] = e]
       /\ s_ret' = [s_ret EXCEPT ![r] =
                      IF e = NilErr THEN @ ELSE [@ EXCEPT !.m = NoMeasurement, !.err = e.kind]]
  /\ g_pc' = [g_pc EXCEPT ![r] = "done"]
  /\ UNCHANGED <<s_pc, s_req, s_admin, s_ctxDone, g_ctx, g_arg, invoked>>
  /\ UNCHANGED <<consumerVars, pubVars, otherVars>>

\* PublishAlert returns to the goroutine, lines 162-167: the error is
\* logged, or "alert_published" is; the goroutine ends.  Nothing forces
\* PublishAlert to return.
G_Return(r) ==
  /\ g_pc[r] = "calling"
  /\ \E e \in PublishOutcomes(g_ctx[r], r) :
       g_err' = [g_err EXCEPT ![r] = e]
  /\ g_pc' = [g_pc EXCEPT ![r] = "done"]
  /\ UNCHANGED <<s_pc, s_req, s_admin, s_ret, s_ctxDone, g_ctx, g_arg, invoked>>
  /\ UNCHANGED <<consumerVars, pubVars, otherVars>>

(* ============================ AuthMiddleware ============================ *)
\* internal/adapters/middleware/auth_middleware.go, lines 17-147 and
\* 293-317.  A token is the string the client presents: what is not a JWT
\* at all, or a header naming the algorithm, the claims, and a signature
\* that either is the one the identity service's key gives for this header
\* and these claims ("issuer") or is anything else ("other").
Jtis == {"", "j1"}
Principals == {[sub |-> "parent-0001", role |-> "PARENT"],
               [sub |-> "parent-0002", role |-> "PARENT"],
               [sub |-> "admin-0001", role |-> "ADMIN"]}
Times == 0..MaxTime
NoExp == -1                    \* the claims carry no "exp"
TokenClaims ==
  {[jti |-> j, sub |-> p.sub, role |-> p.role, exp |-> e] :
     j \in Jtis, p \in Principals, e \in (Times \ {0}) \cup {NoExp}}
Malformed == [raw |-> "invalid-token"]
\* The identity service signs with RS256 only.
Tokens ==
  {t \in [claims : TokenClaims, alg : {"RS256", "HS256"}, sig : {"issuer", "other"}] :
     t.sig = "issuer" => t.alg = "RS256"} \cup {Malformed}
NoClaims == [jti |-> "", sub |-> "", role |-> "", exp |-> NoExp]

\* userID[:min(8, len(userID))], line 87.
Prefix8(sub) ==
  CASE sub \in {"parent-0001", "parent-0002"} -> "parent-0"
    [] sub = "admin-0001" -> "admin-00"
    [] OTHER -> sub
\* tokenString[:min(20, len(tokenString))], line 87: the first characters
\* of the encoded header, which the algorithm it names decides.
Head20(tok) == tok.alg

\* The cache key, lines 80-89: the jti, or the fallback built from the
\* token's head, the role and the user.
CacheKey(tok) ==
  IF tok.claims.jti # "" THEN <<"jti", tok.claims.jti, "", "">>
  ELSE <<"fallback", Head20(tok), tok.claims.role, Prefix8(tok.claims.sub)>>
CacheKeys == {CacheKey(t) : t \in Tokens \ {Malformed}}
NoEntry == [claims |-> NoClaims, exp |-> NoExp]

\* jwt.Parse with the key function of lines 122-127, at time now: the
\* method must be RSA, the signature must verify under m.publicKey, and the
\* library refuses claims whose exp is not in the future.
Verifies(tok) == tok # Malformed /\ tok.alg = "RS256" /\ tok.sig = "issuer"
ParseOk(tok, now) == Verifies(tok) /\ (tok.claims.exp # NoExp => now < tok.claims.exp)

NoAuthReturn == [token |-> Malformed, claims |-> NoClaims, key |-> <<>>, err |-> "none"]
Refused(tok, e) == [token |-> tok, claims |-> NoClaims, key |-> <<>>, err |-> e]

\* GetClaimsFromCacheOrParse, lines 66-147, for the token tok at time now
\* over the cache: what it returns and the cache it leaves.
GetClaimsFromCacheOrParse(tok, now, cache) ==
  IF tok = Malformed THEN [ret |-> Refused(tok, "malformed"), cache |-> cache]
  ELSE IF tok.claims.exp = NoExp
    THEN [ret |-> Refused(tok, "missing expiration claim"), cache |-> cache]
  ELSE IF now > tok.claims.exp
    THEN [ret |-> Refused(tok, "token expired"), cache |-> cache]
  ELSE LET k == CacheKey(tok)
           hit == cache[k] # NoEntry
           swept == IF hit THEN [cache EXCEPT ![k] = NoEntry] ELSE cache
       IN IF hit /\ now < cache[k].exp
          THEN [ret |-> [token |-> tok, claims |-> cache[k].claims, key |-> k, err |-> "nil"],
                cache |-> cache]
          ELSE IF ~ParseOk(tok, now)
            THEN [ret |-> Refused(tok, "invalid"), cache |-> swept]
          ELSE [ret |-> [token |-> tok, claims |-> tok.claims, key |-> k, err |-> "nil"],
                cache |-> [swept EXCEPT ![k] = [claims |-> tok.claims, exp |-> tok.claims.exp]]]

\* State after NewAuthMiddleware, lines 38-48: an empty cache.
AuthInit ==
  /\ a_now = 0
  /\ a_cache = [k \in CacheKeys |-> NoEntry]
  /\ a_ret = NoAuthReturn

\* A request presents a token (RequireAuth, line 201).
A_GetClaims ==
  /\ \E tok \in Tokens :
       LET out == GetClaimsFromCacheOrParse(tok, a_now, a_cache)
       IN /\ a_ret' = out.ret
          /\ a_cache' = out.cache
  /\ UNCHANGED a_now
  /\ UNCHANGED <<consumerVars, pubVars, svcVars, mainVars, noteVars, readVars>>

\* The janitor's tick, lines 300-312: entries that have expired are purged.
A_Janitor ==
  /\ a_cache' = [k \in CacheKeys |->
                   IF a_cache[k] # NoEntry /\ a_now >= a_cache[k].exp THEN NoEntry ELSE a_cache[k]]
  /\ UNCHANGED <<a_now, a_ret>>
  /\ UNCHANGED <<consumerVars, pubVars, svcVars, mainVars, noteVars, readVars>>

\* A second passes.
A_Tick ==
  /\ a_now < MaxTime
  /\ a_now' = a_now + 1
  /\ UNCHANGED <<a_cache, a_ret>>
  /\ UNCHANGED <<consumerVars, pubVars, svcVars, mainVars, noteVars, readVars>>


(* ===================== BabyService / MeasurementService reads ============ *)
\* internal/core/services/baby_service.go, lines 60-96, and
\* measurement_service.go, lines 287-436, over the tables of the SQL
\* repository.  db_babies gives each baby row's parent_user_id (NoOwner:
\* no such row); db_meas gives each measurement row (NoRow: no such row).
\* The repository never rewrites a baby row, and CreateMeasurementWithDetails
\* stores a measurement only for the parent that owns the baby, so a
\* measurement row names an existing baby and that baby's parent.
BabyIds == {"b1", "b2"}
MeasIds == {"m1"}
Users == {"u1", "u2"}
NoOwner == "none"
NoRow == [babyID |-> "none", parentID |-> "none"]
MeasRows(babyRows) == {[babyID |-> b, parentID |-> babyRows[b]] : b \in {x \in BabyIds : babyRows[x] # NoOwner}}
Worlds ==
  {w \in [babies : [BabyIds -> Users \cup {NoOwner}],
          meas : [MeasIds -> [babyID : BabyIds \cup {"none"}, parentID : Users \cup {"none"}]]] :
     \A m \in MeasIds : w.meas[m] \in MeasRows(w.babies) \cup {NoRow}}

\* Queries of the repository (SQLRepository, BabyExists, CheckBabyOwnership,
\* GetMeasurementsByBabyID).
BabyExists(babyRows, b) == babyRows[b] # NoOwner
CheckBabyOwnership(babyRows, b, u) == babyRows[b] = u
MeasurementsOf(meas, b) == {m \in MeasIds : meas[m] # NoRow /\ meas[m].babyID = b}
\* SQLRepository.DeleteMeasurement with a parent: the row goes if it is
\* that parent's.
DeleteRow(meas, m, u) == [meas EXCEPT ![m] = IF meas[m].parentID = u THEN NoRow ELSE meas[m]]

\* What a service call gives back: the entities whose data it returns, the
\* error, the repository calls it made in order, and the measurement table
\* it leaves.
Answer(data, err, calls, meas) == [data |-> data, err |-> err, calls |-> calls, meas |-> meas]
TypeFilters == {"nil", "temperature", "bogus"}
\* limit *int: nil, or a pointer to the number.
Limits == {<<>>, <<0>>, <<1>>}
\* The repository call number fault fails (0: none does).
Faults == 0..3

\* GetBaby without the ownership check of lines 81-89.
GetBaby_NoOwnershipCheck(w, babyID, userID, isAdmin, fault) ==
  LET c1 == <<<<"BabyExists", babyID>>>>
      cg == Append(c1, <<"GetBabyByID", babyID>>)
  IN IF fault = 1 THEN Answer({}, "failed to check baby existence", c1, w.meas)
     ELSE IF ~BabyExists(w.babies, babyID) THEN Answer({}, "baby not found", c1, w.meas)
     ELSE IF fault = 2 THEN Answer({}, "failed to get baby", cg, w.meas)
     ELSE Answer({<<"baby", babyID>>}, "nil", cg, w.meas)

\* BabyService.GetBaby, baby_service.go lines 60-96.
GetBaby(w, babyID, userID, isAdmin, fault) ==
  LET c1 == <<<<"BabyExists", babyID>>>>
      ca == Append(c1, <<"GetBabyByID", babyID>>)
      c2 == Append(c1, <<"CheckBabyOwnership", babyID, userID>>)
      c3 == Append(c2, <<"GetBabyByID", babyID>>)
  IN IF fault = 1 THEN Answer({}, "failed to check baby existence", c1, w.meas)
     ELSE IF ~BabyExists(w.babies, babyID) THEN Answer({}, "baby not found", c1, w.meas)
     ELSE IF isAdmin
       THEN IF fault = 2 THEN Answer({}, "failed to get baby", ca, w.meas)
            ELSE Answer({<<"baby", babyID>>}, "nil", ca, w.meas)
     ELSE IF fault = 2 THEN Answer({}, "failed to check ownership", c2, w.meas)
     ELSE IF ~CheckBabyOwnership(w.babies, babyID, userID) THEN Answer({}, "baby not found", c2, w.meas)
     ELSE IF fault = 3 THEN Answer({}, "failed to get baby", c3, w.meas)
     ELSE Answer({<<"baby", babyID>>}, "nil", c3, w.meas)

\* MeasurementService.GetMeasurements, measurement_service.go lines 287-332.
\* Every stored row of the model is a temperature row; a limit of 1 keeps
\* the one row a baby can have.
GetMeasurements(w, babyID, userID, isAdmin, measurementType, limit, fault) ==
  LET c1 == <<<<"BabyExists", babyID>>>>
      c2 == IF isAdmin THEN c1 ELSE Append(c1, <<"CheckBabyOwnership", babyID, userID>>)
      c3 == Append(c2, <<"GetMeasurementsByBabyID", babyID>>)
  IN IF fault = 1 THEN Answer({}, "failed to check baby existence", c1, w.meas)
     ELSE IF ~BabyExists(w.babies, babyID) THEN Answer({}, "baby not found", c1, w.meas)
     ELSE IF ~isAdmin /\ fault = 2 THEN Answer({}, "failed to check ownership", c2, w.meas)
     ELSE IF ~isAdmin /\ ~CheckBabyOwnership(w.babies, babyID, userID)
       THEN Answer({}, "baby not found", c2, w.meas)
     ELSE IF measurementType = "bogus" THEN Answer({}, "invalid measurement type filter", c2, w.meas)
     ELSE IF limit # <<>> /\ limit[1] <= 0 THEN Answer({}, "limit must be greater than 0", c2, w.meas)
     ELSE IF fault = Len(c3) THEN Answer({}, "failed to get measurements", c3, w.meas)
     ELSE Answer({<<"measurement", m>> : m \in MeasurementsOf(w.meas, babyID)}, "nil", c3, w.meas)

\* MeasurementService.GetMeasurementByID, lines 336-389.
GetMeasurementByID(w, measurementID, userID, isAdmin, fault) ==
  LET measurement == w.meas[measurementID]
      c1 == <<<<"GetMeasurementByID", measurementID>>>>
      c2 == Append(c1, <<"BabyExists", measurement.babyID>>)
      c3 == Append(c2, <<"CheckBabyOwnership", measurement.babyID, userID>>)
  IN IF fault = 1 THEN Answer({}, "failed to get measurement", c1, w.meas)
     ELSE IF measurement = NoRow THEN Answer({}, "measurement not found", c1, w.meas)
     ELSE IF fault = 2 THEN Answer({}, "failed to check baby existence", c2, w.meas)
     ELSE IF ~BabyExists(w.babies, measurement.babyID) THEN Answer({}, "measurement not found", c2, w.meas)
     ELSE IF isAdmin THEN Answer({<<"measurement", measurementID>>}, "nil", c2, w.meas)
     ELSE IF fault = 3 THEN Answer({}, "failed to check ownership", c3, w.meas)
     ELSE IF ~CheckBabyOwnership(w.babies, measurement.babyID, userID)
       THEN Answer({}, "measurement not found", c3, w.meas)
     ELSE Answer({<<"measurement", measurementID>>}, "nil", c3, w.meas)

\* MeasurementService.DeleteMeasurement, lines 394-436.
DeleteMeasurement(w, measurementID, userID, isAdmin, fault) ==
  LET measurement == w.meas[measurementID]
      c1 == <<<<"GetMeasurementByID", measurementID>>>>
      c2 == Append(c1, <<"DeleteMeasurement", measurementID, userID>>)
  IN IF isAdmin THEN Answer({}, "forbidden: only PARENT can delete measurements", <<>>, w.meas)
     ELSE IF fault = 1 THEN Answer({}, "failed to get measurement", c1, w.meas)
     ELSE IF measurement = NoRow THEN Answer({}, "measurement not found", c1, w.meas)
     ELSE IF measurement.parentID # userID THEN Answer({}, "measurement not found", c1, w.meas)
     ELSE IF fault = 2 THEN Answer({}, "failed to delete measurement", c2, w.meas)
     ELSE Answer({}, "nil", c2, DeleteRow(w.meas, measurementID, userID))

NoQuery == [op |-> "none", target |-> "none", user |-> "none", isAdmin |-> FALSE,
            before |-> NoRow, data |-> {}, err |-> "none", calls |-> <<>>]
World == [babies |-> db_babies, meas |-> db_meas]

\* The tables every other specification runs over, and no call made yet.
ReadStart ==
  /\ db_babies = [b \in BabyIds |-> NoOwner]
  /\ db_meas = [m \in MeasIds |-> NoRow]
  /\ q_ret = NoQuery

\* Any tables the service can have filled.
ReadInit ==
  /\ \E w \in Worlds : db_babies = w.babies /\ db_meas = w.meas
  /\ q_ret = NoQuery

\* The call returns: its answer is noted with its arguments and with the
\* measurement row it named as it was before the call.
Q_Return(op, target, userID, isAdmin, ans) ==
  /\ q_ret' = [op |-> op, target |-> target, user |-> userID, isAdmin |-> isAdmin,
               before |-> IF target \in MeasIds THEN db_meas[target] ELSE NoRow,
               data |-> ans.data, err |-> ans.err, calls |-> ans.calls]
  /\ db_meas' = ans.meas
  /\ UNCHANGED db_babies
  /\ UNCHANGED <<consumerVars, pubVars, svcVars, mainVars, noteVars, authVars>>

Q_GetBaby ==
  \E b \in BabyIds, u \in Users, isAdmin \in BOOLEAN, fault \in Faults :
    LET ans == GetBaby(World, b, u, isAdmin, fault)
    IN Q_Return("GetBaby", b, u, isAdmin, ans)

Q_GetMeasurements ==
  \E b \in BabyIds, u \in Users, isAdmin \in BOOLEAN, t \in TypeFilters, l \in Limits, fault \in Faults :
    LET ans == GetMeasurements(World, b, u, isAdmin, t, l, fault)
    IN Q_Return("GetMeasurements", b, u, isAdmin, ans)

Q_GetMeasurementByID ==
  \E m \in MeasIds, u \in Users, isAdmin \in BOOLEAN, fault \in Faults :
    LET ans == GetMeasurementByID(World, m, u, isAdmin, fault)
    IN Q_Return("GetMeasurementByID", m, u, isAdmin, ans)

Q_DeleteMeasurement ==
  \E m \in MeasIds, u \in Users, isAdmin \in BOOLEAN, fault \in Faults :
    LET ans == DeleteMeasurement(World, m, u, isAdmin, fault)
    IN Q_Return("DeleteMeasurement", m, u, isAdmin, ans)

\* CreateMeasurementWithDetails over the tables: Handle with the answers
\* BabyExists and CheckBabyOwnership give on them (fault 1 and 2: the call
\* fails) and with CreateMeasurement failing on fault 3.
CreateOver(w, babyID, userID, isAdmin, req, fault, slow) ==
  Handle(1, req, isAdmin,
         IF fault = 1 THEN "err" ELSE IF BabyExists(w.babies, babyID) THEN "yes" ELSE "no",
         IF fault = 2 THEN "err" ELSE IF CheckBabyOwnership(w.babies, babyID, userID) THEN "yes" ELSE "no",
         fault # 3, slow)

\* The requests made on the tables: one of a type that does not exist, a
\* temperature validateMeasurement refuses, and a normal temperature.
TableRequests ==
  {r \in Requests : r.celsius = NoCelsius /\ (r.type = "height" \/ (r.type = "temperature" /\ r.value \in {299, 370}))}

\* A call of CreateMeasurementWithDetails on the tables, from entry to
\* return: the request and the result are noted, and a stored
\* measurement takes a row of the table that is free (uuid.New()).
Q_CreateMeasurement ==
  \E b \in BabyIds, u \in Users, isAdmin \in BOOLEAN, req \in TableRequests,
     fault \in Faults, slow \in BOOLEAN :
    LET out == CreateOver(World, b, u, isAdmin, req, fault, slow)
        free == {m \in MeasIds : db_meas[m] = NoRow}
        id == CHOOSE m \in free : TRUE
    IN /\ out.stored # NoMeasurement => free # {}
       /\ q_ret' = [op |-> "CreateMeasurementWithDetails", target |-> b, user |-> u,
                    isAdmin |-> isAdmin, before |-> NoRow,
                    data |-> IF out.m # NoMeasurement THEN {<<"measurement", id>>} ELSE {},
                    err |-> out.err, calls |-> <<>>]
       /\ db_meas' = IF out.stored # NoMeasurement
                     THEN [db_meas EXCEPT ![id] = [babyID |-> b, parentID |-> u]]
                     ELSE db_meas
       /\ s_req' = [s_req EXCEPT ![1] = req]
       /\ UNCHANGED <<db_babies, s_pc, s_admin, s_ret, s_ctxDone, g_pc, g_ctx, g_arg, g_err, invoked>>
       /\ UNCHANGED <<consumerVars, pubVars, mainVars, noteVars, authVars>>


\* main is between the start of the consumer and the shutdown signal
\* (cmd/api/main.go, lines 60-135).
MainInit == m_pc = "serving"

NoteInit == priorCtx = [s \in Slots |-> "nil"] /\ byHandler = [s \in Slots |-> FALSE]

OtherInit == MainInit /\ NoteInit /\ AuthInit /\ ReadStart


(* ============================ specifications ============================ *)
vars == <<consumerVars, pubVars, svcVars, otherVars>>

\* Lifecycle of a running consumer: every interleaving of outside
\* StartConsuming calls, the loops, the reconnection handler, cancellation
\* and connection loss, over a queue of well-formed requests.
Init == ConsumerInit({ValidBody}, 0) /\ PublisherInit /\ ServiceInit /\ OtherInit

Next ==
  \/ \E s \in Slots : Deliver(s)
  \/ BrokerDown
  \/ BrokerBack
  \/ Cancel
  \/ StartCall
  \/ \E s \in Slots : SC_Guard(s)
  \/ \E s \in Slots : SC_Read(s)
  \/ \E s \in Slots : SC_Register(s)
  \/ \E s \in Slots : SC_Reset(s)
  \/ \E s \in Slots : Loop_Cancelled(s)
  \/ \E s \in Slots : Loop_ChanClosed(s)
  \/ \E s \in Slots : Loop_Send(s)
  \/ \E s \in Slots : Loop_Defer(s)
  \/ \E s \in Slots : Loop_Recv(s)
  \/ \E s \in Slots : PM_Validate(s)
  \/ \E s \in Slots : PM_Create(s)
  \/ \E s \in Slots : PM_Dispose(s)
  \/ \E s \in Slots : PM_Return(s)
  \/ H_Wake
  \/ H_CloseStale
  \/ H_Dial
  \/ H_Channel
  \/ H_Declare
  \/ H_Requeue
  \/ H_Restart

Spec == Init /\ [][Next]_vars

\* The same lifecycle with Close callable at any moment, over a repository
\* that does not fail (its failures are used up from the start).
CloseInit == ConsumerInit({ValidBody}, MaxFail) /\ PublisherInit /\ ServiceInit /\ OtherInit

CloseNext ==
  \/ Next
  \/ H_Stop
  \/ CL_Stop
  \/ CL_Mark
  \/ CL_Conn

CloseSpec == CloseInit /\ [][CloseNext]_vars

\* Message processing over every body: StartConsuming, the loop and
\* processMessage, with connection loss and cancellation but no reconnection.
MsgInit == ConsumerInit(Bodies, 0) /\ PublisherInit /\ ServiceInit /\ OtherInit

MsgNext ==
  \/ \E s \in Slots : Deliver(s)
  \/ BrokerDown
  \/ Cancel
  \/ StartCall
  \/ \E s \in Slots : SC_Guard(s)
  \/ \E s \in Slots : SC_Read(s)
  \/ \E s \in Slots : SC_Register(s)
  \/ \E s \in Slots : SC_Reset(s)
  \/ \E s \in Slots : Loop_Cancelled(s)
  \/ \E s \in Slots : Loop_ChanClosed(s)
  \/ \E s \in Slots : Loop_Send(s)
  \/ \E s \in Slots : Loop_Defer(s)
  \/ \E s \in Slots : Loop_Recv(s)
  \/ \E s \in Slots : PM_Validate(s)
  \/ \E s \in Slots : PM_Create(s)
  \/ \E s \in Slots : PM_Dispose(s)
  \/ \E s \in Slots : PM_Return(s)

MsgSpec == MsgInit /\ [][MsgNext]_vars

\* The consumer on a stable connection with the run signal never
\* cancelled: the broker keeps delivering, every started goroutine keeps
\* being scheduled, and the repository fails at most MaxFail times.
EmptyLastName == [user_id |-> "a1", last_name |-> "", room_number |-> "101"]
BadUuid == [user_id |-> "zz", last_name |-> "Smith", room_number |-> "101"]
LiveBodies == {ValidBody, GarbageBody, EmptyLastName, BadUuid}
LiveInit == ConsumerInit(LiveBodies, 0) /\ PublisherInit /\ ServiceInit /\ OtherInit

LiveNext ==
  \/ \E s \in Slots : Deliver(s)
  \/ StartCall
  \/ \E s \in Slots : SC_Guard(s)
  \/ \E s \in Slots : SC_Read(s)
  \/ \E s \in Slots : SC_Register(s)
  \/ \E s \in Slots : Loop_Recv(s)
  \/ \E s \in Slots : PM_Validate(s)
  \/ \E s \in Slots : PM_Create(s)
  \/ \E s \in Slots : PM_Dispose(s)
  \/ \E s \in Slots : PM_Return(s)

LiveFairness ==
  /\ WF_vars(StartCall)
  /\ \A s \in Slots :
       /\ WF_vars(Deliver(s))
       /\ WF_vars(SC_Guard(s))
       /\ WF_vars(SC_Read(s))
       /\ WF_vars(SC_Register(s))
       /\ WF_vars(Loop_Recv(s))
       /\ WF_vars(PM_Validate(s))
       /\ WF_vars(PM_Create(s))
       /\ WF_vars(PM_Dispose(s))
       /\ WF_vars(PM_Return(s))

LiveSpec == LiveInit /\ [][LiveNext]_vars /\ LiveFairness

\* The publisher: PublishAlert calls from MaxCallers callers, the circuit
\* breaker's clock, connection loss and the publisher's reconnection.
PubNext ==
  \/ \E c \in Callers : P_Call(c)
  \/ \E c \in Callers : P_Attempt(c)
  \/ \E c \in Callers : P_Exhausted(c)
  \/ \E c \in Callers : P_Return(c)
  \/ CB_Timeout
  \/ CB_Interval
  \/ P_BrokerDown
  \/ P_BrokerBack
  \/ P_H_Wake
  \/ P_H_Dial
  \/ P_H_Channel
  \/ P_H_Declare
  \/ P_H_Failed

PubSpec == Init /\ [][PubNext]_vars

\* The circuit breaker: PublishAlert calls whose attempts succeed, fail or
\* are skipped, the breaker's clock, connection loss with the reconnection
\* handler not yet scheduled, and the run of failed calls observed in p_run.
BreakerNext ==
  \/ \E c \in Callers : P_Call(c)
  \/ \E c \in Callers : P_Attempt(c)
  \/ \E c \in Callers : P_Exhausted(c)
  \/ \E c \in Callers : P_ReturnCounted(c)
  \/ CB_Timeout
  \/ CB_Interval
  \/ P_BrokerDown
  \/ P_BrokerBack

BreakerSpec == Init /\ [][BreakerNext]_vars

\* The alert messages: PublishAlert called with a measurement of any type,
\* value and status, its attempts succeeding, failing or skipped, with
\* neither the breaker's clock nor the reconnection handler scheduled.
AlertInit == ConsumerInit({ValidBody}, 0) /\ PublisherStart(AlertMeasurements) /\ ServiceInit /\ OtherInit

AlertNext ==
  \/ \E c \in Callers : P_Call(c)
  \/ \E c \in Callers : P_Attempt(c)
  \/ \E c \in Callers : P_Exhausted(c)
  \/ \E c \in Callers : P_Return(c)
  \/ P_BrokerDown
  \/ P_BrokerBack

AlertSpec == AlertInit /\ [][AlertNext]_vars

\* The two connect functions: the consumer's lifecycle of Spec, and the
\* publisher's reconnection handler serving the request left by a retried
\* PublishAlert, with the broker coming and going under both.
ConnectInit == ConsumerInit({ValidBody}, 0) /\ PublisherAfterRetry /\ ServiceInit /\ OtherInit

ConnectNext ==
  \/ Next
  \/ P_BrokerDown
  \/ P_BrokerBack
  \/ P_H_Wake
  \/ P_H_Dial
  \/ P_H_Channel
  \/ P_H_Declare
  \/ P_H_Failed

ConnectSpec == ConnectInit /\ [][ConnectNext]_vars

\* The measurement service: MaxReqs calls of CreateMeasurementWithDetails
\* over every request shape, their alert goroutines, and the cancellation
\* of the request contexts.
SvcNext ==
  \/ \E r \in Reqs : CreateMeasurementWithDetails(r)
  \/ \E r \in Reqs : RequestDone(r)
  \/ \E r \in Reqs : G_PublishAlert(r)
  \/ \E r \in Reqs : G_Return(r)

SvcSpec == Init /\ [][SvcNext]_vars

\* The same, with the Go scheduler running every goroutine that was
\* started: the alert goroutine reaches its PublishAlert call.
SvcFairSpec == SvcSpec /\ \A r \in Reqs : WF_vars(G_PublishAlert(r))

\* main starts consumption once (cmd/api/main.go, lines 60-66).
StartOnce ==
  /\ explicitCalls = 0
  /\ StartCall

\* The consumer as main runs it until shutdown: one StartConsuming call,
\* the run signal never cancelled, a repository that does not fail, the
\* broker going away at most MaxDrops times and coming back.  Every
\* goroutine that can take a step is scheduled, and an unreachable broker
\* becomes reachable again.
RestartInit == ConsumerInit({ValidBody}, MaxFail) /\ PublisherInit /\ ServiceInit /\ OtherInit

RestartNext ==
  \/ \E s \in Slots : Deliver(s)
  \/ BrokerDown
  \/ BrokerBack
  \/ StartOnce
  \/ \E s \in Slots : SC_Guard(s)
  \/ \E s \in Slots : SC_Read(s)
  \/ \E s \in Slots : SC_Register(s)
  \/ \E s \in Slots : SC_Reset(s)
  \/ \E s \in Slots : Loop_ChanClosed(s)
  \/ \E s \in Slots : Loop_Send(s)
  \/ \E s \in Slots : Loop_Defer(s)
  \/ \E s \in Slots : Loop_Recv(s)
  \/ \E s \in Slots : PM_Validate(s)
  \/ \E s \in Slots : PM_Create(s)
  \/ \E s \in Slots : PM_Dispose(s)
  \/ \E s \in Slots : PM_Return(s)
  \/ H_Wake
  \/ H_CloseStale
  \/ H_Dial
  \/ H_Channel
  \/ H_Declare
  \/ H_Requeue
  \/ H_Restart

RestartFairness ==
  /\ WF_vars(BrokerBack)
  /\ WF_vars(StartOnce)
  /\ WF_vars(H_Wake) /\ WF_vars(H_CloseStale) /\ WF_vars(H_Dial) /\ WF_vars(H_Channel)
  /\ WF_vars(H_Declare) /\ WF_vars(H_Requeue) /\ WF_vars(H_Restart)
  /\ \A s \in Slots :
       /\ WF_vars(SC_Guard(s)) /\ WF_vars(SC_Read(s))
       /\ WF_vars(SC_Register(s)) /\ WF_vars(SC_Reset(s))
       /\ WF_vars(Loop_ChanClosed(s)) /\ WF_vars(Loop_Send(s)) /\ WF_vars(Loop_Defer(s))
       /\ WF_vars(Loop_Recv(s)) /\ WF_vars(PM_Validate(s)) /\ WF_vars(PM_Create(s))
       /\ WF_vars(PM_Dispose(s)) /\ WF_vars(PM_Return(s))

RestartSpec == RestartInit /\ [][RestartNext]_vars /\ RestartFairness


\* Start, reconnection and stop of the consumer with no message in
\* flight: StartConsuming calls from outside, the loops finding the run
\* signal cancelled or the delivery channel closed, the reconnection
\* handler, connection loss, and Close called at any moment and again
\* after it returned.
StopNext ==
  \/ BrokerDown
  \/ BrokerBack
  \/ Cancel
  \/ StartCall
  \/ \E s \in Slots : SC_Guard(s)
  \/ \E s \in Slots : SC_Read(s)
  \/ \E s \in Slots : SC_Register(s)
  \/ \E s \in Slots : SC_Reset(s)
  \/ \E s \in Slots : Loop_Cancelled(s)
  \/ \E s \in Slots : Loop_ChanClosed(s)
  \/ \E s \in Slots : Loop_Send(s)
  \/ \E s \in Slots : Loop_Defer(s)
  \/ H_Wake
  \/ H_Stop
  \/ H_CloseStale
  \/ H_Dial
  \/ H_Channel
  \/ H_Declare
  \/ H_Requeue
  \/ H_Restart
  \/ CL_Stop
  \/ CL_Mark
  \/ CL_Conn
  \/ CL_Again

StopSpec == CloseInit /\ [][StopNext]_vars


\* The process from the start of the consumer to the end of main's
\* graceful shutdown, on a stable connection: the single StartConsuming
\* call, the loop and processMessage over well-formed requests, and main
\* cancelling the run signal and shutting the HTTP server down.
ShutdownNext ==
  \/ \E s \in Slots : Deliver(s)
  \/ StartOnce
  \/ \E s \in Slots : SC_Guard(s)
  \/ \E s \in Slots : SC_Read(s)
  \/ \E s \in Slots : SC_Register(s)
  \/ \E s \in Slots : Loop_Cancelled(s)
  \/ \E s \in Slots : Loop_Defer(s)
  \/ \E s \in Slots : Loop_Recv(s)
  \/ \E s \in Slots : PM_Validate(s)
  \/ \E s \in Slots : PM_Create(s)
  \/ \E s \in Slots : PM_Dispose(s)
  \/ \E s \in Slots : PM_Return(s)
  \/ M_Cancel
  \/ M_Shutdown
  \/ M_Exit

ShutdownSpec == Init /\ [][ShutdownNext]_vars


\* Starting the consumer: StartConsuming calls from outside and from the
\* reconnection handler, on a connection that comes and goes, with what
\* c.consumingCtx held on entry of each call noted; no message in flight.
StartNext ==
  \/ BrokerDown
  \/ BrokerBack
  \/ Cancel
  \/ StartCall
  \/ \E s \in Slots : SC_GuardNoted(s)
  \/ \E s \in Slots : SC_Read(s)
  \/ \E s \in Slots : SC_Register(s)
  \/ \E s \in Slots : SC_Reset(s)
  \/ \E s \in Slots : Loop_Cancelled(s)
  \/ \E s \in Slots : Loop_ChanClosed(s)
  \/ \E s \in Slots : Loop_Send(s)
  \/ \E s \in Slots : Loop_Defer(s)
  \/ H_Wake
  \/ H_CloseStale
  \/ H_Dial
  \/ H_Channel
  \/ H_Declare
  \/ H_Requeue
  \/ H_Restart

StartSpec == Init /\ [][StartNext]_vars


\* The authentication middleware alone: tokens of every shape presented
\* at any time, the janitor, and the clock.
AuthCore == ConsumerInit({ValidBody}, 0) /\ PublisherInit /\ ServiceInit /\ MainInit /\ NoteInit

AuthSpecInit == AuthCore /\ AuthInit /\ ReadStart

AuthNext ==
  \/ A_GetClaims
  \/ A_Janitor
  \/ A_Tick

AuthSpec == AuthSpecInit /\ [][AuthNext]_vars

\* The read and delete operations of the two services, over any tables.
ReadSpecInit == AuthCore /\ AuthInit /\ ReadInit

ReadNext ==
  \/ Q_GetBaby
  \/ Q_GetMeasurements
  \/ Q_GetMeasurementByID
  \/ Q_DeleteMeasurement

ReadSpec == ReadSpecInit /\ [][ReadNext]_vars


\* The five calls a parent or an admin makes on babies and measurements,
\* over any tables the service can have filled.
LeakNext == ReadNext \/ Q_CreateMeasurement

LeakSpec == ReadSpecInit /\ [][LeakNext]_vars


\* The two reconnection handlers left to themselves: the consumer started
\* once by main, the publisher with the request of a retried PublishAlert
\* pending and no further PublishAlert call, the broker coming and going
\* under both, and the Go scheduler running every goroutine that can run.
RedialInit == ConsumerInit({ValidBody}, MaxFail) /\ PublisherAfterRetry /\ ServiceInit /\ OtherInit

RedialNext ==
  \/ RestartNext
  \/ P_BrokerDown
  \/ P_BrokerBack
  \/ P_H_Wake
  \/ P_H_Dial
  \/ P_H_Channel
  \/ P_H_Declare
  \/ P_H_Failed

RedialFairness ==
  /\ RestartFairness
  /\ WF_vars(P_H_Wake) /\ WF_vars(P_H_Dial) /\ WF_vars(P_H_Channel)
  /\ WF_vars(P_H_Declare) /\ WF_vars(P_H_Failed)

RedialSpec == RedialInit /\ [][RedialNext]_vars /\ RedialFairness


\* Cancellation against reconnection: main starts consumption once and
\* cancels the run signal at any moment, while the connection is lost and
\* the reconnection handler reconnects and restarts consumption.
ResumeNext ==
  \/ \E s \in Slots : Deliver(s)
  \/ BrokerDown
  \/ BrokerBack
  \/ Cancel
  \/ StartOnce
  \/ \E s \in Slots : SC_Guard(s)
  \/ \E s \in Slots : SC_Read(s)
  \/ \E s \in Slots : SC_Register(s)
  \/ \E s \in Slots : SC_Reset(s)
  \/ \E s \in Slots : Loop_Cancelled(s)
  \/ \E s \in Slots : Loop_ChanClosed(s)
  \/ \E s \in Slots : Loop_Send(s)
  \/ \E s \in Slots : Loop_Defer(s)
  \/ \E s \in Slots : Loop_Recv(s)
  \/ \E s \in Slots : PM_Validate(s)
  \/ \E s \in Slots : PM_Create(s)
  \/ \E s \in Slots : PM_Dispose(s)
  \/ \E s \in Slots : PM_Return(s)
  \/ H_Wake
  \/ H_CloseStale
  \/ H_Dial
  \/ H_Channel
  \/ H_Declare
  \/ H_Requeue
  \/ H_RestartNoted

ResumeSpec == RestartInit /\ [][ResumeNext]_vars


\* Recovery of the publisher: PublishAlert is called again and again by
\* one caller with an alert that can be marshalled, the broker goes away and comes back at any time, a publish
\* on open handles of a reachable broker succeeds, and every goroutine
\* (the caller, handleReconnection) and the breaker's cooldown timer makes
\* its next step eventually; an attempt that can succeed again and again
\* eventually does (strong fairness).
P_CallSteady(c) == P_Call(c) /\ p_pc'[c] # "after"
P_AttemptSteady(c) ==
  /\ P_Attempt(c)
  /\ (p_up /\ p_conn = "open" /\ p_channel = "open") => p_pc'[c] = "after"

RecoverNext ==
  \/ P_CallSteady(1)
  \/ P_AttemptSteady(1)
  \/ P_Exhausted(1)
  \/ P_Return(1)
  \/ CB_Timeout
  \/ CB_Interval
  \/ P_BrokerDown
  \/ P_BrokerBack
  \/ P_H_Wake
  \/ P_H_Dial
  \/ P_H_Channel
  \/ P_H_Declare
  \/ P_H_Failed

RecoverFairness ==
  /\ SF_vars(P_AttemptSteady(1) /\ p_pc'[1] = "after")
  /\ WF_vars(P_CallSteady(1)) /\ WF_vars(P_AttemptSteady(1))
  /\ WF_vars(P_Exhausted(1)) /\ WF_vars(P_Return(1))
  /\ WF_vars(CB_Timeout)
  /\ WF_vars(P_H_Wake) /\ WF_vars(P_H_Dial) /\ WF_vars(P_H_Channel)
  /\ WF_vars(P_H_Declare) /\ WF_vars(P_H_Failed)

RecoverSpec == Init /\ [][RecoverNext]_vars /\ RecoverFairness


TypeOK ==
  /\ brokerUp \in BOOLEAN
  /\ c_conn \in {"nil", "open", "closed"}
  /\ c_channel \in {"nil", "open", "closed"}
  /\ reconnectCh \in 0..1
  /\ c_channel = "open" => c_conn = "open"
  /\ \A s \in Slots : registered[s] => c_channel = "open"
  /\ \A s \in Slots : Cardinality(unacked[s]) <= prefetchCount


(* ================================ claims ================================ *)
\* What the specification calls a poison message, stated on the body
\* itself: not a JSON object, or one of the three fields missing or empty,
\* or a user_id that does not denote an identifier.
IsJsonObject(b) == "raw" \notin DOMAIN b
HasText(b, k) == k \in DOMAIN b /\ b[k] # ""
DenotesUuid(str) == str \in {"a1", "A1"}
UuidDenoted(str) == 1
SpecPoison(b) ==
  \/ ~IsJsonObject(b)
  \/ ~HasText(b, "user_id")
  \/ ~HasText(b, "last_name")
  \/ ~HasText(b, "room_number")
  \/ ~DenotesUuid(b["user_id"])

\* The disposition the per-message state machine prescribes for the
\* delivery slot s is processing.
Prescribed(s) ==
  IF SpecPoison(body[cur[s].msg]) THEN "nack_drop"
  ELSE IF cur[s].svc = "ok" THEN "ack"
  ELSE "nack_requeue"

\* C1: every delivery handed to processMessage gets exactly one disposition
\* call, the one the state machine prescribes: none while processMessage
\* is still deciding, exactly one, the prescribed one, when it returns.
C1_ExactlyOneDisposition ==
  \A s \in Slots :
    /\ cur[s].dispN <= 1
    /\ pc[s] \in {"pm_validate", "pm_create", "pm_disp"} => cur[s].dispN = 0
    /\ pc[s] = "pm_ret" => cur[s].dispN = 1 /\ cur[s].disp = Prescribed(s)

C1_Witness ==
  \E s \in Slots : pc[s] = "pm_ret" /\ cur[s].disp = "nack_requeue" /\ cur[s].dispN = 1

\* C2: a poison message is nacked without requeue and the creation service
\* is never invoked for it: no service call and no entity for it, ever.
C2_PoisonRejected ==
  /\ \A s \in Slots :
       (cur[s].msg # 0 /\ SpecPoison(body[cur[s].msg])) =>
         /\ cur[s].svcN = 0
         /\ pc[s] \notin {"pm_create", "pm_disp"}
         /\ pc[s] = "pm_ret" => cur[s].disp = "nack_drop"
  /\ \A m \in MsgIds : SpecPoison(body[m]) => hist[m].created = 0

C2_Witness ==
  \E s \in Slots :
    /\ pc[s] = "pm_ret"
    /\ cur[s].disp = "nack_drop"
    /\ IsJsonObject(body[cur[s].msg])
    /\ HasText(body[cur[s].msg], "user_id")
    /\ ~DenotesUuid(body[cur[s].msg]["user_id"])

\* C4: a delivery is acked only after CreateBaby succeeded for that same
\* delivery, and a request leaves the queue for good only by a nack of a
\* poison message or after an entity was created for it.
Gone(m) == (\A i \in 1..Len(queue) : queue[i] # m) /\ (\A s \in Slots : m \notin unacked[s])

C4_AckOnlyAfterCreate ==
  /\ \A s \in Slots : cur[s].disp = "ack" => (cur[s].svc = "ok" /\ cur[s].svcN = 1)
  /\ \A m \in MsgIds : (Gone(m) /\ ~SpecPoison(body[m])) => hist[m].created >= 1

C4_Witness ==
  \E s \in Slots : pc[s] = "pm_ret" /\ cur[s].disp = "ack" /\ Gone(cur[s].msg)

\* The arguments the specification expects for the request in body b.
ExpectedArgs(b) ==
  [lastName |-> b["last_name"],
   roomNumber |-> b["room_number"],
   parentUserID |-> UuidDenoted(b["user_id"]),
   createdByUserID |-> NilUUID,
   isAdmin |-> TRUE]

\* A valid request, delivered once, whose processMessage has returned.
ProcessedOnce(s) ==
  /\ pc[s] = "pm_ret"
  /\ ~SpecPoison(body[cur[s].msg])
  /\ hist[cur[s].msg].deliv = 1

\* C8 as stated: a valid request delivered once has the service invoked
\* exactly once with the message's fields and isAdmin = true, and is
\* acknowledged exactly once.
C8_Original ==
  \A s \in Slots :
    ProcessedOnce(s) =>
      /\ cur[s].svcN = 1
      /\ cur[s].args = ExpectedArgs(body[cur[s].msg])
      /\ cur[s].disp = "ack"
      /\ cur[s].dispN = 1

\* C8 amended: the service is invoked exactly once with the message's
\* fields and isAdmin = true; the message is acknowledged exactly once when
\* that call succeeds, and is nacked with requeue, not acknowledged, when
\* it fails.
C8_InvokedOnceAckedOnSuccess ==
  \A s \in Slots :
    ProcessedOnce(s) =>
      /\ cur[s].svcN = 1
      /\ cur[s].args = ExpectedArgs(body[cur[s].msg])
      /\ cur[s].dispN = 1
      /\ cur[s].svc = "ok" => cur[s].disp = "ack"
      /\ cur[s].svc # "ok" => cur[s].disp = "nack_requeue"

C8_Witness ==
  \E s \in Slots :
    /\ ProcessedOnce(s)
    /\ cur[s].svc = "ok"
    /\ cur[s].disp = "ack"
    /\ body[cur[s].msg]["user_id"] = "A1"
    /\ Len(babies) = 1


\* The StartConsuming invocations that got past the guard and the loops
\* they started, up to the loop's deferred reset.
ActiveSlots == {s \in Slots : pc[s] \in (StartPCs \ {"sc_guard"}) \cup LoopPCs \cup ProcessingPCs}
Consumers == {s \in Slots : registered[s]}

\* A StartConsuming call that finds a loop active returns at the guard.
LosingCall(s) == pc[s] = "sc_guard" /\ isConsuming /\ pc'[s] # pc[s]

ActiveLoops == {s \in Slots : pc[s] \in LoopPCs \cup ProcessingPCs}
InProgress == {s \in Slots : pc[s] \in ProcessingPCs}
Unacknowledged == UNION {unacked[s] : s \in Slots}

\* C6: in every reachable state, across any interleaving of StartConsuming,
\* reconnection, channel closure and Close, at most one processMessage is
\* in progress, at most one delivered message is unacknowledged and at
\* most one consumption loop is active.
C6_Sequential ==
  /\ Cardinality(InProgress) <= 1
  /\ Cardinality(Unacknowledged) <= 1
  /\ Cardinality(ActiveLoops) <= 1


\* C7: a request whose creation already succeeded and that is delivered
\* again, its acknowledgement having failed, does not create a second
\* entity: each creation request yields at most one entity.
C7_AtMostOneEntity ==
  /\ \A m \in MsgIds : hist[m].created <= 1
  /\ Len(babies) <= MaxMsgs


\* The latest processing of message m ended with the service failing and
\* a nack with requeue / with an acknowledgement.
FailedAndRequeued(m) ==
  \E s \in Slots : cur[s].msg = m /\ cur[s].svc = "repo_error" /\ cur[s].disp = "nack_requeue"
Acknowledged(m) ==
  \E s \in Slots : cur[s].msg = m /\ cur[s].svc = "ok" /\ cur[s].disp = "ack"

\* C3: on a stable connection with the run signal not cancelled, a
\* well-formed message whose CreateBaby call failed is nacked with requeue,
\* is delivered again and is acknowledged once the service stops failing.
C3_RetriedUntilAcked ==
  \A m \in MsgIds :
    /\ [](\A s \in Slots : (cur[s].msg = m /\ pc[s] = "pm_ret" /\ cur[s].svc = "repo_error")
                              => cur[s].disp = "nack_requeue")
    /\ FailedAndRequeued(m) ~> (hist[m].deliv >= 2 /\ Acknowledged(m))

C3_Witness ==
  \E s \in Slots :
    /\ pc[s] = "pm_ret"
    /\ Acknowledged(cur[s].msg)
    /\ hist[cur[s].msg].deliv = 2
    /\ fails = 1

\* Message m is ready in the queue.
Waiting(m) == \E i \in 1..Len(queue) : queue[i] = m

\* processMessage has run to its end on message m.
Processed(m) == \E s \in Slots : cur[s].msg = m /\ pc[s] = "pm_ret" /\ cur[s].dispN = 1

\* C9: after a poison message is nacked without requeue the loop goes
\* back to its select, and every valid message of the queue, whatever
\* poison messages precede it, is eventually processed.
C9_NoHeadOfLineBlocking ==
  /\ \A s \in Slots : (pc[s] = "pm_ret" /\ cur[s].disp = "nack_drop") ~> (pc[s] = "select")
  /\ \A m \in MsgIds : (~SpecPoison(body[m]) /\ Waiting(m)) ~> Processed(m)

C9_Witness ==
  /\ MaxMsgs \in MsgIds
  /\ \A m \in 1..(MaxMsgs - 1) : SpecPoison(body[m]) /\ Gone(m) /\ hist[m].deliv = 1
  /\ ~SpecPoison(body[MaxMsgs])
  /\ Processed(MaxMsgs)


\* The Go test err == nil.
IsNil(e) == e.kind = "nil"

\* C10: PublishAlert returns nil if and only if exactly one
\* PublishWithContext of the call succeeded, no attempt is made after that
\* success, and every other outcome (the breaker refusing the call, the
\* marshal failing, every attempt failing or being skipped) returns a
\* non-nil error.
C10_NilIffPublished ==
  /\ \A c \in Callers :
       /\ p_oks[c] <= 1
       /\ p_pc[c] = "attempt" => p_oks[c] = 0
       /\ p_pc[c] = "after" => (IsNil(p_err[c]) <=> p_oks[c] = 1)
  /\ p_lastRet.called => (IsNil(p_lastRet.err) <=> p_lastRet.oks = 1)

C10_Witness ==
  /\ p_lastRet.called
  /\ p_lastRet.err.kind = "failed to publish alert after retries"
  /\ p_lastRet.err.cause = "nil"
  /\ \E c \in Callers : p_pc[c] = "after" /\ p_oks[c] = 1 /\ p_i[c] = maxRetries - 1


\* Attempts caller c has made in its current call: the passes of the
\* retry loop that failed or were skipped, and the one that succeeded.
AttemptsMade(c) == p_i[c] + p_oks[c]

\* A pass of the retry loop of caller c.
RetryPass(c) == p_pc[c] = "attempt" /\ <<p_i[c], p_pc[c], p_sleeps[c]>>' # <<p_i[c], p_pc[c], p_sleeps[c]>>

\* C11: a publish call makes at most 3 attempts, a skipped one included:
\* every pass of the retry loop either counts as one more attempt or ends
\* the loop, after the third the loop is left, and each attempt after the
\* first comes after one retry delay per earlier attempt.
C11_BoundedRetry ==
  /\ [](\A c \in Callers :
          /\ AttemptsMade(c) <= maxRetries
          /\ (p_pc[c] = "attempt" /\ p_i[c] < maxRetries) => p_sleeps[c] = p_i[c]
          /\ p_sleeps[c] <= maxRetries)
  /\ [][\A c \in Callers : RetryPass(c) =>
          \/ p_pc'[c] = "after"
          \/ p_pc'[c] = "attempt" /\ p_i'[c] = p_i[c] + 1 /\ p_i[c] < maxRetries]_vars

C11_Witness ==
  \E c \in Callers : p_pc[c] = "after" /\ p_i[c] = maxRetries /\ p_sleeps[c] = maxRetries /\ ~p_up


\* PublishAlert returned the error of line 688: the attempts are exhausted.
ReturnedExhausted == p_lastRet.called /\ p_lastRet.err.kind = "failed to publish alert after retries"

\* C12: the error returned after the attempts are exhausted aggregates an
\* underlying cause, whatever mix of failed and skipped attempts led there.
C12_ExhaustedErrorHasCause ==
  /\ \A c \in Callers :
       (p_pc[c] = "after" /\ p_err[c].kind = "failed to publish alert after retries")
          => p_err[c].cause # "nil"
  /\ ReturnedExhausted => p_lastRet.err.cause # "nil"

\* What CreateMeasurementWithDetails can give for the request and role of
\* call r, over everything the repositories and the clock can answer.
HandlerResults(r) ==
  {Handle(r, s_req[r], s_admin[r], exists, owned, saved, slow) :
     exists \in RepoAnswers, owned \in RepoAnswers, saved \in BOOLEAN, slow \in BOOLEAN}
GoroutineCalled(r) == g_pc[r] \in {"calling", "done"}

\* C13: the pair CreateMeasurementWithDetails returns is one it computes
\* from the request, the repositories and the clock, whatever PublishAlert
\* does (returns nil, returns an error, refuses, never returns); the call
\* returns before PublishAlert is called; and the context handed to
\* PublishAlert is the background context, which the cancellation of the
\* request's context does not cancel.
C13_AlertNeverFailsRequest ==
  /\ [](\A r \in Reqs :
          /\ s_pc[r] = "returned" => s_ret[r] \in HandlerResults(r)
          /\ GoroutineCalled(r) => g_ctx[r] = "background" /\ ~Cancelled(g_ctx[r], r)
          /\ g_pc[r] # "none" => s_pc[r] = "returned")
  /\ [][\A r \in Reqs :
          /\ g_pc[r] # "none" => s_ret'[r] = s_ret[r] /\ s_pc'[r] = s_pc[r]
          /\ s_pc[r] # s_pc'[r] => ~GoroutineCalled(r)']_vars
C13_Witness ==
  \E r \in Reqs :
    /\ s_pc[r] = "returned" /\ s_ret[r].err = "nil" /\ s_ret[r].m.status = "red"
    /\ s_ctxDone[r] /\ g_pc[r] = "done" /\ g_err[r] = ErrOpenState

PersistedRed(r) ==
  /\ s_pc[r] = "returned"
  /\ s_ret[r].stored # NoMeasurement
  /\ s_ret[r].stored.status = "red"

\* C14: PublishAlert is called at most once for a call of
\* CreateMeasurementWithDetails, only for a measurement that was stored
\* with the computed status red and with that measurement; never for an
\* admin, a request validation refuses or one whose storing failed; and
\* for every measurement stored with status red the call is made.
C14_AlertOncePerRedMeasurement ==
  /\ [](\A r \in Reqs :
          /\ invoked[r] <= 1
          /\ GoroutineCalled(r) <=> invoked[r] = 1
          /\ invoked[r] = 1 => PersistedRed(r) /\ g_arg[r] = s_ret[r].stored
          /\ PersistedRed(r) <=> g_pc[r] # "none"
          /\ PersistedRed(r) =>
                s_ret[r].stored.status = CalculateSafetyStatus(s_req[r].type, s_req[r].value)
          /\ (s_pc[r] = "returned" /\
                (\/ s_admin[r]
                 \/ ~IsValidMeasurementType(s_req[r].type)
                 \/ validateMeasurement(s_req[r]) # "nil"
                 \/ s_ret[r].err = "failed to create measurement"))
                => invoked[r] = 0 /\ g_pc[r] = "none")
  /\ \A r \in Reqs : PersistedRed(r) ~> invoked[r] = 1
C14_Witness ==
  \E r \in Reqs :
    /\ PersistedRed(r) /\ invoked[r] = 1 /\ g_pc[r] = "done"
    /\ s_ret[r].err = "operation exceeded 2s timeout"

\* A PublishAlert call of caller c returns from the operation; a call is
\* refused by the breaker (no caller moves, a return is recorded).
ReturnStep(c) == p_pc[c] = "after" /\ p_pc'[c] = "idle"
RefusalStep == p_pc' = p_pc /\ p_lastRet' # p_lastRet
\* While the breaker is open no call reaches the operation and a refused
\* call returns ErrOpenState; the breaker leaves the open state only to
\* half-open with its counts cleared, and a breaker that is closed, or
\* half-open with budget left, refuses no call.
OpenShortCircuits ==
  /\ [][cbState = "open" => \A c \in Callers : p_pc[c] = "idle" => p_pc'[c] = "idle"]_vars
  /\ [][(cbState = "open" /\ RefusalStep) => p_lastRet'.err = ErrOpenState]_vars
CooldownAdmits ==
  /\ [][(cbState = "open" /\ cbState' # "open") =>
          (cbState' = "half-open" /\ cbCounts' = ZeroCounts)]_vars
  /\ [][RefusalStep =>
          (cbState = "open" \/ (cbState = "half-open" /\ cbCounts.requests >= cbMaxRequests))]_vars

\* C15 as stated: a closed breaker never has 6 failed calls in a row
\* behind it (the 6th opens it), it opens only on the 6th of a row, the
\* open breaker short-circuits, and after the cooldown the next call is
\* let through.
C15_OpensAfterSixFailedCalls ==
  /\ [](cbState = "closed" => p_run <= cbTripAfter)
  /\ [][(cbState = "closed" /\ cbState' = "open") => p_run = cbTripAfter]_vars
  /\ OpenShortCircuits
  /\ CooldownAdmits

\* C15, amended: the closed breaker opens exactly when a call returns a
\* failure that is the 6th in a row counted in the current counting
\* interval (generation); results of calls that began in an earlier
\* generation are not counted and the expiry of the interval clears the
\* count.  The open breaker short-circuits, and after the cooldown the
\* next call is let through.
C15_OpensAtSixCountedFailures ==
  /\ [](cbState = "closed" => cbCounts.consecFail <= cbTripAfter)
  /\ [][\A c \in Callers : (ReturnStep(c) /\ cbState = "closed") =>
          (cbState' = "open" <=>
             (~p_stale[c] /\ p_err[c] # NilErr /\ cbCounts.consecFail = cbTripAfter))]_vars
  /\ [][(cbState = "closed" /\ cbState' # "closed") =>
          (cbState' = "open" /\ \E c \in Callers : ReturnStep(c))]_vars
  /\ OpenShortCircuits
  /\ CooldownAdmits
C15_Witness ==
  /\ cbState = "half-open"
  /\ cbCounts.requests = 1
  /\ \E c \in Callers : p_pc[c] = "attempt"
  /\ p_lastRet.called /\ p_lastRet.err = ErrOpenState

\* A call of caller c is let through to the operation; the result of the
\* returning call of c is one the breaker counts (the call began in the
\* current generation).
AdmitStep(c) == p_pc[c] = "idle" /\ p_pc'[c] # "idle"
CountedReturn(c) == ReturnStep(c) /\ ~p_stale[c]
\* A failed trial call reopens the breaker with its counts cleared, and at
\* most cbMaxRequests calls are let through in one half-open period.
TrialFailureReopens ==
  [][\A c \in Callers : (CountedReturn(c) /\ cbState = "half-open" /\ p_err[c] # NilErr) =>
        (cbState' = "open" /\ cbCounts' = ZeroCounts)]_vars
TrialBudget ==
  /\ [](cbState = "half-open" => cbCounts.requests <= cbMaxRequests)
  /\ [][\A c \in Callers : (AdmitStep(c) /\ cbState = "half-open") =>
          (cbCounts.requests < cbMaxRequests /\ cbCounts'.requests = cbCounts.requests + 1)]_vars
  /\ [](cbState = "half-open" =>
          Cardinality({c \in Callers : p_pc[c] # "idle" /\ ~p_stale[c]}) <= cbCounts.requests)

\* C16 as stated: in the half-open state a successful trial call closes
\* the breaker with its counts cleared, a failed one reopens it, and at
\* most 5 trial calls reach the operation.
C16_TrialSuccessCloses ==
  /\ [][\A c \in Callers : (CountedReturn(c) /\ cbState = "half-open" /\ p_err[c] = NilErr) =>
          (cbState' = "closed" /\ cbCounts' = ZeroCounts)]_vars
  /\ TrialFailureReopens
  /\ TrialBudget

\* C16, amended: in the half-open state the successful trial call that is
\* the 5th in a row closes the breaker with its counts cleared, an earlier
\* one leaves it half-open; a failed trial call reopens it; and at most 5
\* trial calls reach the operation in one half-open period.
C16_FifthTrialSuccessCloses ==
  /\ [][\A c \in Callers : (CountedReturn(c) /\ cbState = "half-open" /\ p_err[c] = NilErr) =>
          IF cbCounts.consecSucc = cbMaxRequests - 1
          THEN cbState' = "closed" /\ cbCounts' = ZeroCounts
          ELSE cbState' = "half-open" /\ cbCounts'.consecSucc = cbCounts.consecSucc + 1]_vars
  /\ [](cbState = "half-open" => cbCounts.consecSucc < cbMaxRequests)
  /\ TrialFailureReopens
  /\ TrialBudget
C16_Witness ==
  /\ cbState = "half-open"
  /\ cbCounts.requests = cbMaxRequests
  /\ cbCounts.consecSucc = cbMaxRequests - 1
  /\ p_lastRet.called /\ p_lastRet.err = ErrTooManyRequests

\* C17: while the breaker is open no call is let through to the operation,
\* and a call made then returns ErrOpenState having published nothing,
\* slept for no retry, left the connection, the channel and the reconnect
\* signal as they were, and left the breaker's state and counts as they
\* were.
C17_OpenCallHasNoEffect ==
  /\ [][cbState = "open" => \A c \in Callers : ~AdmitStep(c)]_vars
  /\ [][(cbState = "open" /\ RefusalStep) =>
          /\ p_lastRet' = [called |-> TRUE, err |-> ErrOpenState, oks |-> 0]
          /\ UNCHANGED <<cbState, cbCounts, p_run>>
          /\ UNCHANGED <<p_up, p_conn, p_channel, p_reconnectCh, p_hpc, p_hi>>
          /\ UNCHANGED <<p_i, p_oks, p_sleeps, p_lastErr, p_err, p_stale>>]_vars
C17_Witness ==
  /\ cbState = "open"
  /\ p_lastRet.called /\ p_lastRet.err = ErrOpenState
  /\ p_conn = "closed" /\ p_reconnectCh = 0
  /\ \A c \in Callers : p_pc[c] = "idle"

\* The alert type the claim gives for a measurement type and a value in
\* tenths of a degree.
ClaimedAlertType(t, v) ==
  IF t = "temperature" /\ v > 380 THEN "high_temperature_critical"
  ELSE IF t = "temperature" /\ v < 360 THEN "low_temperature_critical"
  ELSE IF t = "weight" THEN "invalid_weight"
  ELSE "critical_measurement"
Marshalled(c) == p_body[c] # NoBody

Handed(c) == p_out[c] # NoMessage

C_Dialled == hpc = "h_dial" /\ <<hpc, hi>>' # <<hpc, hi>>
C_DialFailed == C_Dialled /\ c_conn' = "nil"
C_ChannelFailed == hpc = "h_chan" /\ hpc' # hpc /\ c_channel' # "open"
C_DeclareFailed == hpc = "h_declare" /\ hpc' # hpc /\ (c_channel # "open" \/ c_channel' # "open")
C_ConnectReturned == hpc \in {"h_dial", "h_chan", "h_declare"} /\ hpc' \in {"h_requeue", "h_restart"}
C_ConnectFailed == C_ConnectReturned /\ hpc' = "h_requeue"
\* The same for the publisher's connect.
P_Dialled == p_hpc = "dial" /\ <<p_hpc, p_hi>>' # <<p_hpc, p_hi>>
P_DialFailed == P_Dialled /\ p_conn' = "nil"
P_ChannelFailed == p_hpc = "chan" /\ p_hpc' # p_hpc /\ p_channel' # "open"
P_DeclareFailed == p_hpc = "declare" /\ p_hpc' # p_hpc /\ (p_channel # "open" \/ p_channel' # "open")
P_ConnectReturned == p_hpc \in {"dial", "chan", "declare"} /\ p_hpc' \in {"failed", "wait"}
P_ConnectFailed == P_ConnectReturned /\ p_hpc' = "failed"

LoopLostChannel == \E s \in Slots : pc[s] = "send"
LoopActive == \E s \in Slots : pc[s] \in LoopPCs \ {"send", "defer"} /\ registered[s]

\* C21: when the consumption loop finds its delivery channel closed while
\* the run signal is not cancelled, and the broker becomes reachable again,
\* a consumption loop on the same run signal is eventually active again
\* without another StartConsuming call from outside, under fair scheduling
\* of the loop and the reconnection handler.
C21_LoopRestartsAfterReconnect == LoopLostChannel ~> LoopActive

(* ------------------------------------------------------------------ C22 *)
\* The loop of slot s takes a delivery from msgs and enters processMessage.
BeginsProcessing(s) == pc[s] = "select" /\ pc'[s] = "pm_validate"

\* C22: the run signal is checked first on every iteration, so once it is
\* cancelled the consumption loop begins processing no further message,
\* even when more messages are ready for delivery.
C22_NoMessageAfterCancel ==
  [][\A s \in Slots : ctxCancelled => ~BeginsProcessing(s)]_vars

(* ------------------------------------------------------------------ C23 *)
\* C23: Close is idempotent: a second (or n-th) call returns normally,
\* without panic or error, and leaves the component as the first call
\* left it.
C23_CloseIdempotent == clpc # "panic"

(* ------------------------------------------------------------------ C24 *)
CloseReturned == clpc = "done"

\* C24: after Close has returned the component never again holds an open
\* connection or channel and serves no consumption loop, in every
\* interleaving, including a reconnection that was in flight when Close
\* was called.
C24_NothingOpenAfterClose ==
  CloseReturned => /\ c_conn # "open"
                   /\ c_channel # "open"
                   /\ \A s \in Slots : ~registered[s]

(* ------------------------------------------------------------------ C25 *)
\* processMessage of slot s issues its CreateBaby call (line 291).
IssuesCreateBaby(s) == cur'[s].svcN = cur[s].svcN + 1
TeardownStarted == m_pc \in {"shutdown", "exited"}

\* C25: during shutdown the run signal is cancelled before the teardown of
\* the HTTP server begins, so that the consumer issues no creation-service
\* call once that teardown has started.
C25_NoCreateAfterTeardown ==
  [][\A s \in Slots : TeardownStarted => ~IssuesCreateBaby(s)]_vars

(* ------------------------------------------------------------------ C26 *)
\* The StartConsuming call of slot s returns its error (lines 177, 190, 208).
ReturnsStartError(s) == pc[s] = "sc_reset" /\ pc'[s] = "idle"

\* C26: a StartConsuming call that fails, because connection or channel
\* are absent or closed or QoS or registration fails, starts no loop and
\* leaves the run state as it was before the call: not consuming, and no
\* newly recorded run signal for a later reconnection to use.
C26_FailedStartLeavesRunState ==
  [][\A s \in Slots :
       ReturnsStartError(s) => /\ ~isConsuming'
                               /\ ~registered'[s]
                               /\ consumingCtx' = priorCtx[s]]_vars

(* ------------------------------------------------------------------ C27 *)
\* The request of the README (src/README.md, lines 78-84) and the parent
\* it names.
IsReadmeRequest(b) ==
  /\ IsJsonObject(b)
  /\ DOMAIN b = {"last_name", "room_number", "parent_user_id"}
  /\ HasText(b, "last_name") /\ HasText(b, "room_number")
  /\ DenotesUuid(b["parent_user_id"])

\* C27: a creation request in the message format the README documents,
\* {"last_name", "room_number", "parent_user_id"}, consumed from the
\* creation queue, has the baby created for that parent and is
\* acknowledged (a failure of the repository apart, which requeues it).
C27_ReadmeRequestCreatesBaby ==
  \A s \in Slots :
    (pc[s] = "pm_ret" /\ IsReadmeRequest(body[cur[s].msg])) =>
      /\ cur[s].svcN = 1
      /\ cur[s].args.lastName = body[cur[s].msg]["last_name"]
      /\ cur[s].args.roomNumber = body[cur[s].msg]["room_number"]
      /\ cur[s].args.parentUserID = UuidDenoted(body[cur[s].msg]["parent_user_id"])
      /\ cur[s].disp = (IF cur[s].svc = "ok" THEN "ack" ELSE "nack_requeue")

\* C28: GetClaimsFromCacheOrParse returns claims for a presented token only
\* if that token's own signature verifies under the configured public key,
\* whatever the JTI cache holds: a token whose signature is invalid is
\* refused even when it carries the jti of a cached valid token.
AcceptedToken == a_ret.err = "nil"
C28_ClaimsOnlyForVerifiedSignature == AcceptedToken => Verifies(a_ret.token)

\* C29: for a non-admin caller, GetBaby, GetMeasurements and
\* GetMeasurementByID return data only for a baby the caller owns and
\* DeleteMeasurement deletes only a measurement the caller created; in
\* every other case the call returns an error, returns no data, deletes
\* nothing and makes none of the repository calls GetBabyByID,
\* GetMeasurementsByBabyID and DeleteMeasurement (GetMeasurementByID and
\* DeleteMeasurement do read the measurement row by its id first, to learn
\* whose it is).
NonAdminReturn == q_ret.op # "none" /\ ~q_ret.isAdmin
DataOwner(d) == IF d[1] = "baby" THEN db_babies[d[2]] ELSE db_babies[db_meas[d[2]].babyID]
RowDeleted == q_ret.op = "DeleteMeasurement" /\ q_ret.before # NoRow /\ db_meas[q_ret.target] = NoRow
CallerEntitled ==
  CASE q_ret.op \in {"GetBaby", "GetMeasurements"} -> db_babies[q_ret.target] = q_ret.user
    [] q_ret.op = "GetMeasurementByID" ->
         q_ret.before # NoRow /\ db_babies[q_ret.before.babyID] = q_ret.user
    [] q_ret.op = "DeleteMeasurement" ->
         q_ret.before # NoRow /\ q_ret.before.parentID = q_ret.user
    [] OTHER -> FALSE
CallsMade(names) == {i \in 1..Len(q_ret.calls) : q_ret.calls[i][1] \in names}
OwnershipEnforced ==
  /\ \A d \in q_ret.data : DataOwner(d) = q_ret.user
  /\ RowDeleted => q_ret.before.parentID = q_ret.user
  /\ ~CallerEntitled => q_ret.err # "nil" /\ q_ret.data = {} /\ ~RowDeleted
C29_OwnershipEnforcedReadFirst ==
  NonAdminReturn =>
    /\ OwnershipEnforced
    /\ ~CallerEntitled => CallsMade({"GetBabyByID", "GetMeasurementsByBabyID", "DeleteMeasurement"}) = {}

\* A parent asked for a measurement of another parent's baby and was refused.
C29_Witness ==
  /\ NonAdminReturn
  /\ q_ret.op = "GetMeasurementByID"
  /\ q_ret.before # NoRow
  /\ db_babies[q_ret.before.babyID] # q_ret.user
  /\ q_ret.err = "measurement not found"
  /\ q_ret.data = {}

\* C29 as stated: in every other case no repository read or delete for the
\* target entity's data is called at all.
C29_NoDataCallForOthers ==
  NonAdminReturn =>
    /\ OwnershipEnforced
    /\ ~CallerEntitled =>
         CallsMade({"GetBabyByID", "GetMeasurementsByBabyID", "GetMeasurementByID", "DeleteMeasurement"}) = {}

\* C30: whenever CreateMeasurementWithDetails returns an error, the call has
\* persisted no measurement and has started no alert publish (the same is
\* claimed of CreateBaby, whose only write is its last statement).
ReturnedError(r) == s_pc[r] = "returned" /\ s_ret[r].err # "nil"
C30_ErrorMeansNothingDone ==
  \A r \in Reqs : ReturnedError(r) => s_ret[r].stored = NoMeasurement /\ g_pc[r] = "none"

\* C31: a publish attempt never performs broker I/O on a dead connection:
\* whenever the owned connection or channel is absent or closed at an
\* attempt, the attempt calls no PublishWithContext and instead requests a
\* reconnect and waits the retry delay.
AttemptBy(c) ==
  /\ p_pc[c] = "attempt"
  /\ p_i[c] < maxRetries
  /\ p_i'[c] = p_i[c] + 1 \/ p_pc'[c] = "after"
PublisherHandlesDead == p_conn # "open" \/ p_channel # "open"
SkipsAndSignals(c) ==
  /\ p_out'[c] = p_out[c]
  /\ p_lastErr'[c] = p_lastErr[c]
  /\ p_reconnectCh' > 0
  /\ p_sleeps'[c] = p_sleeps[c] + 1
C31_NoPublishOnDeadConnection ==
  [][\A c \in Callers : (AttemptBy(c) /\ PublisherHandlesDead) => SkipsAndSignals(c)]_vars

\* C32: requestReconnect is non-blocking and coalescing for the publisher
\* and the consumer: at most one reconnect request is pending, and no
\* publish attempt, consumption loop or reconnection handler that issues a
\* request ever waits for room in the channel, also after the
\* reconnection handler has been stopped.
LoopBlockedOnRequest(s) == pc[s] = "send" /\ reconnectCh = 1
HandlerBlockedOnRequest == hpc = "h_requeue" /\ reconnectCh = 1
C32_RequestNeverBlocks ==
  /\ reconnectCh <= 1
  /\ p_reconnectCh <= 1
  /\ \A s \in Slots : ~LoopBlockedOnRequest(s)
  /\ ~HandlerBlockedOnRequest

\* C33: for the publisher and for the consumer, when a reconnection attempt
\* has failed, another reconnection attempt is eventually made without any
\* further outside request.
\* connect returned the error of the last of maxRetries dials: the handle is nil.
ConsumerAttemptFailed == hpc = "h_requeue" /\ c_conn = "nil"
ConsumerAttempts == hpc = "h_dial"
PublisherAttemptFailed == p_hpc = "failed" /\ p_conn = "nil"
PublisherAttempts == p_hpc = "dial"
C33_FailedReconnectIsRetried ==
  /\ ConsumerAttemptFailed ~> ConsumerAttempts
  /\ PublisherAttemptFailed ~> PublisherAttempts

\* C34: every read and every write of the owned connection and channel
\* handles is made under the component's connection lock, so no reader
\* ever observes a new connection paired with the previous channel.
\* connect is between its assignment of the connection and its assignment
\* of the channel:
ConsumerMidSwap == hpc = "h_chan"
PublisherMidSwap == p_hpc = "chan"
\* StartConsuming reads c.channel and c.conn under RLock, lines 168-171.
ReadsHandles(s) == pc[s] = "sc_read" /\ pc'[s] # "sc_read"
C34_HandlesReadAndWrittenUnderLock ==
  [][/\ \A s \in Slots : ReadsHandles(s) => ~ConsumerMidSwap
     /\ \A c \in Callers : AttemptBy(c) => ~PublisherMidSwap]_vars

\* C35: when the delivery channel closes unexpectedly, the consumption loop
\* issues one reconnect request, processes no further message and
\* terminates, and the consumer is then marked not consuming; the mark is
\* cleared before the reconnection handler decides whether to restart
\* consumption.
LoopSawClosure(s) == pc[s] = "send"
LoopEnded(s) == pc[s] = "idle" /\ ~registered[s]
RequestSentMarkSet(s) == pc[s] = "defer"
DecidesRestart == hpc = "h_restart" /\ hpc' = "wait"
LoopEndsAfterClosure == \A s \in Slots : LoopSawClosure(s) ~> LoopEnded(s)
MarkClearedBeforeDecision == [][DecidesRestart => \A s \in Slots : ~RequestSentMarkSet(s)]_vars
C35_MarkClearedBeforeRestartDecision == LoopEndsAfterClosure /\ MarkClearedBeforeDecision

\* C36: the reconnection path never starts consumption once the run signal
\* has been cancelled: after the cancellation, a StartConsuming that
\* handleReconnection started registers no broker consumer and its loop
\* processes no message.
RegistersConsumer(s) == ~registered[s] /\ registered'[s]
C36_NoRestartAfterCancel ==
  [][\A s \in Slots :
       (ctxCancelled /\ byHandler[s]) => ~RegistersConsumer(s) /\ ~BeginsProcessing(s)]_vars


\* ---- C37: one PublishAlert call is one breaker result ----
\* A message is handed to the broker only by a call the breaker let
\* through and that is inside its retry loop.
PublishInsideGuardedCall ==
  [][\A c \in Callers : (p_out'[c] # p_out[c] /\ p_out'[c] # NoMessage) => p_pc[c] = "attempt"]_vars
\* An attempt of the retry loop, published, failed or skipped, leaves the
\* breaker's state and counts as they are.
AttemptsNotCounted ==
  [][\A c \in Callers : AttemptBy(c) => UNCHANGED cbVars]_vars
\* What the breaker does with the result of a returning call that it
\* counts: a success clears the failures in a row, a failure adds one to
\* them or opens the breaker.
CountsOneResult(c) ==
  IF p_err[c] = NilErr
  THEN cbCounts'.consecFail = 0
  ELSE \/ cbCounts'.consecFail = cbCounts.consecFail + 1 /\ cbState' = cbState
       \/ cbState' = "open" /\ cbCounts' = ZeroCounts
\* The count of failures in a row rises only by one, at the return of a
\* failed call.
RisesOnlyAtFailedReturn ==
  [][cbCounts'.consecFail > cbCounts.consecFail =>
       /\ cbCounts'.consecFail = cbCounts.consecFail + 1
       /\ \E c \in Callers : CountedReturn(c) /\ p_err[c] # NilErr]_vars

\* C37 as stated: publishing happens inside a guarded call, every
\* PublishAlert call that returns is counted as exactly one success or one
\* failure whatever the number of its attempts, and the count of failures
\* in a row never exceeds the number of failed calls in a row.
C37_EveryCallCountedOnce ==
  /\ PublishInsideGuardedCall
  /\ AttemptsNotCounted
  /\ [][\A c \in Callers : ReturnStep(c) => CountsOneResult(c)]_vars
  /\ [](cbState = "closed" => cbCounts.consecFail <= p_run)

\* C37, amended: publishing happens inside a guarded call, no attempt is
\* counted, a returning call that began in the breaker's current
\* generation is counted as exactly one success or one failure, a
\* returning call that began in an earlier generation is not counted at
\* all, and the count of failures in a row rises only by one at the
\* counted return of a failed call.
C37_CountedOncePerGeneration ==
  /\ PublishInsideGuardedCall
  /\ AttemptsNotCounted
  /\ [][\A c \in Callers : CountedReturn(c) => CountsOneResult(c)]_vars
  /\ [][\A c \in Callers : (ReturnStep(c) /\ p_stale[c]) => UNCHANGED cbVars]_vars
  /\ RisesOnlyAtFailedReturn
\* A call that used up its three attempts has returned and stands in the
\* breaker as one failure.
C37_Witness ==
  /\ p_lastRet.called
  /\ p_lastRet.err.kind = "failed to publish alert after retries"
  /\ cbState = "closed"
  /\ cbCounts.consecFail = 1
  /\ p_run = 1


\* ---- C38: the publisher recovers once the broker stays reachable ----
CallSucceeds == \E c \in Callers : p_pc[c] = "after" /\ p_err[c] = NilErr
\* C38: if from some moment on the broker is reachable for good, repeated
\* PublishAlert calls succeed again and again, whatever the connection,
\* the reconnection loop and the breaker were at that moment.
C38_PublisherRecovers == (<>[]p_up) => []<>CallSucceeds


\* ---- C39: the stored status is the status of the stored value ----
StoredTemperature(r) ==
  /\ s_pc[r] = "returned"
  /\ s_ret[r].stored # NoMeasurement
  /\ s_ret[r].stored.type = "temperature"
\* C39: every stored temperature measurement carries the safety status of
\* its stored value, whatever the request's value and value_celsius were;
\* so a stored temperature below 36.0 or above 38.0 is red and starts the
\* alert.
C39_StatusOfStoredValue ==
  \A r \in Reqs :
    StoredTemperature(r) =>
      /\ s_ret[r].stored.status = CalculateSafetyStatus("temperature", s_ret[r].stored.value)
      /\ (s_ret[r].stored.value < TemperatureYellowMin \/ s_ret[r].stored.value > TemperatureYellowMax)
           => (s_ret[r].stored.status = "red" /\ g_pc[r] # "none")


\* ---- C40: a refusal does not tell whether the entity exists ----
\* The last call was made by a parent on a baby or a measurement that
\* exists and is not theirs.
TargetExists ==
  IF q_ret.target \in BabyIds THEN db_babies[q_ret.target] # NoOwner ELSE q_ret.before # NoRow
OwnsTarget ==
  CASE q_ret.op \in {"GetBaby", "GetMeasurements", "CreateMeasurementWithDetails"} ->
         db_babies[q_ret.target] = q_ret.user
    [] q_ret.op = "GetMeasurementByID" -> db_babies[q_ret.before.babyID] = q_ret.user
    [] q_ret.op = "DeleteMeasurement" -> q_ret.before.parentID = q_ret.user
    [] OTHER -> FALSE
NotOwnedReturn == NonAdminReturn /\ TargetExists /\ ~OwnsTarget
\* The tables without the entity the last call named.
WithoutTarget ==
  IF q_ret.target \in BabyIds
  THEN [babies |-> [db_babies EXCEPT ![q_ret.target] = NoOwner],
        meas |-> [m \in MeasIds |-> IF db_meas[m].babyID = q_ret.target THEN NoRow ELSE db_meas[m]]]
  ELSE [babies |-> db_babies, meas |-> [db_meas EXCEPT ![q_ret.target] = NoRow]]
Result(a) == [data |-> a.data, err |-> a.err]
CreateResult(out) == [data |-> {}, err |-> out.err]
\* What the same call by the same caller can return on the tables without
\* the entity, when the repository fails as in faults.
AbsentResults(faults) ==
  CASE q_ret.op = "GetBaby" ->
         {Result(GetBaby(WithoutTarget, q_ret.target, q_ret.user, FALSE, f)) : f \in faults}
    [] q_ret.op = "GetMeasurements" ->
         {Result(GetMeasurements(WithoutTarget, q_ret.target, q_ret.user, FALSE, t, l, f)) :
            t \in TypeFilters, l \in Limits, f \in faults}
    [] q_ret.op = "GetMeasurementByID" ->
         {Result(GetMeasurementByID(WithoutTarget, q_ret.target, q_ret.user, FALSE, f)) : f \in faults}
    [] q_ret.op = "DeleteMeasurement" ->
         {Result(DeleteMeasurement(WithoutTarget, q_ret.target, q_ret.user, FALSE, f)) : f \in faults}
    [] q_ret.op = "CreateMeasurementWithDetails" ->
         {CreateResult(CreateOver(WithoutTarget, q_ret.target, q_ret.user, FALSE, s_req[1], f, FALSE)) :
            f \in faults}
    [] OTHER -> {}
RepositoryFailures ==
  {"failed to check baby existence", "failed to check ownership", "failed to get measurement"}

====
